---- MODULE Spec2Model ----
(***************************************************************************)
(* State-machine model of the quotation management backend                 *)
(* (project/backend): the session manager of auth.py, the tables of        *)
(* create_tables.py and the migrate_*.py scripts, and the request handlers *)
(* of app.py that read and write them.                                     *)
(*                                                                         *)
(* Conventions.  SQL NULL / Python None is the string "NULL" in text       *)
(* columns and the integer -1 in integer and timestamp columns.  A mail    *)
(* address is the record [local, domain]; an address without '@' has       *)
(* domain "NULL".  A mail body is the record of what the extraction        *)
(* patterns of sync_emails find in it; its company field is the sequence   *)
(* of the groups the company patterns that match capture, in the order of  *)
(* the patterns.  Timestamps are seconds.                                  *)
(***************************************************************************)
EXTENDS Integers, Sequences, FiniteSets, TLC

VARIABLES users, clients, nextClientId, inquiries, responses, messages,
          session, now, resp, lastLogin,
          publishers, nextPublisherId,
          monitoring_thread, stop_event, workers, callers, ai_assistant,
          inbox, syncs

tables == <<users, clients, nextClientId, inquiries, responses, messages,
            publishers, nextPublisherId>>
\* the services beside the data routes: the email monitor (EmailHandler's
\* thread fields and the running threads), the global AI assistant, the
\* IMAP inbox and the email-sync requests under way
services == <<monitoring_thread, stop_event, workers, callers, ai_assistant,
              inbox, syncs>>
vars == <<users, clients, nextClientId, inquiries, responses, messages,
          session, now, resp, lastLogin, publishers, nextPublisherId,
          monitoring_thread, stop_event, workers, callers, ai_assistant,
          inbox, syncs>>

NULL == "NULL"
NULLINT == -1

(***************************************************************************)
(* Bounds of the model.                                                    *)
(***************************************************************************)
MaxClients == 2
MaxInquiries == 2
MaxResponses == 2
MaxMessages == 3
MaxBatch == 2
MaxClock == 1
MaxPeriods == 2
MaxList == 2
MaxPage == 3
MaxPerPage == 2
MaxText == 3
MaxWorkers == 2
MaxFetches == 1
MaxInbox == 2

(***************************************************************************)
(* Program constants.                                                      *)
(***************************************************************************)
SESSION_TIMEOUT == 3600
MIN_REQUIRED_FIELDS == 3

(***************************************************************************)
(* Password hashing (werkzeug): a stored hash carries its salt, and        *)
(* check_password_hash recomputes the digest of the candidate password     *)
(* under that salt.                                                        *)
(***************************************************************************)
generate_password_hash(password, salt) == <<"pbkdf2", salt, <<salt, password>>>>

check_password_hash(pwhash, password) == pwhash[3] = <<pwhash[2], password>>

(***************************************************************************)
(* The users table.  No request handler writes it; its rows come from the  *)
(* import_users tool.  carol is deactivated.                               *)
(***************************************************************************)
UserRows ==
    { [id |-> 1, username |-> "alice", full_name |-> "Alice A",
       email |-> "alice@x.com", is_active |-> 1,
       password_hash |-> generate_password_hash("Secret123", "s1")],
      [id |-> 2, username |-> "bob", full_name |-> "Bob B",
       email |-> "bob@x.com", is_active |-> 1,
       password_hash |-> generate_password_hash("hunter2", "s2")],
      [id |-> 3, username |-> "carol", full_name |-> "Carol C",
       email |-> "carol@x.com", is_active |-> 0,
       password_hash |-> generate_password_hash("Secret123", "s3")] }

\* The role the deployment gives each user ("role field on users").
UserRole == [u \in {"alice", "bob", "carol"} |->
                IF u = "alice" THEN "admin"
                ELSE IF u = "carol" THEN "manager" ELSE "staff"]

NoUser == [id |-> 0]
EmptySession == << >>

\* User.get_by_username / User.get_by_email: only is_active = 1 rows.
get_by_username(username) ==
    LET rows == {u \in users : u.username = username /\ u.is_active = 1}
    IN IF rows = {} THEN NoUser ELSE CHOOSE u \in rows : TRUE

get_by_email(email) ==
    LET rows == {u \in users : u.email = email /\ u.is_active = 1}
    IN IF rows = {} THEN NoUser ELSE CHOOSE u \in rows : TRUE

verify_password(user, password) ==
    IF user = NoUser THEN FALSE
    ELSE check_password_hash(user.password_hash, password)

\* datetime.isoformat / datetime.fromisoformat
isoformat(t) == <<"iso", t>>
fromisoformat(s) == s[2]

\* AuthManager.get_current_user: the user projection (NoUser for None) and
\* the session it leaves behind.
Projection(user) ==
    [id |-> user.id, username |-> user.username,
     full_name |-> user.full_name, email |-> user.email]

get_current_user_lax(s, t) ==
    IF "user_id" \notin DOMAIN s
    THEN [user |-> NoUser, session |-> s]
    ELSE IF "login_time" \in DOMAIN s
            /\ t - fromisoformat(s.login_time) >= SESSION_TIMEOUT
    THEN [user |-> NoUser, session |-> EmptySession]
    ELSE LET user == get_by_username(s.username)
         IN IF user = NoUser
            THEN [user |-> NoUser, session |-> EmptySession]
            ELSE [user |-> Projection(user), session |-> s]

get_current_user(s, t) ==
    IF "user_id" \notin DOMAIN s
    THEN [user |-> NoUser, session |-> s]
    ELSE IF "login_time" \in DOMAIN s
            /\ t - fromisoformat(s.login_time) > SESSION_TIMEOUT
    THEN [user |-> NoUser, session |-> EmptySession]
    ELSE LET user == get_by_username(s.username)
         IN IF user = NoUser
            THEN [user |-> NoUser, session |-> EmptySession]
            ELSE [user |-> Projection(user), session |-> s]

is_authenticated_has_cookie == "user_id" \in DOMAIN session

is_authenticated == get_current_user(session, now).user # NoUser

\* dict.get('role') on the projection returned by get_current_user
RoleOf(user) == IF "role" \in DOMAIN user THEN user.role ELSE NULL

(***************************************************************************)
(* Authentication routes.                                                  *)
(***************************************************************************)
\* AuthManager.login_by_email
login_by_email_nocheck(email, password, token) ==
    LET user == get_by_email(email)
    IN IF user = NoUser
       THEN [result |-> NoUser, session |-> session]
       ELSE [result |-> [id |-> user.id, username |-> user.username,
                         full_name |-> user.full_name, email |-> user.email,
                         token |-> token],
             session |-> [user_id |-> user.id, username |-> user.username,
                          token |-> token, login_time |-> isoformat(now)]]

login_by_email(email, password, token) ==
    LET user == get_by_email(email)
    IN IF user = NoUser \/ ~verify_password(user, password)
       THEN [result |-> NoUser, session |-> session]
       ELSE [result |-> [id |-> user.id, username |-> user.username,
                         full_name |-> user.full_name, email |-> user.email,
                         token |-> token],
             session |-> [user_id |-> user.id, username |-> user.username,
                          token |-> token, login_time |-> isoformat(now)]]

\* POST /api/auth/login.  lastLogin is a history variable: the user and the
\* time of the latest successful login.
login(email, password, token) ==
    /\ IF email = "" \/ password = ""
       THEN /\ resp' = [op |-> "login", status |-> 400, email |-> email,
                        password |-> password, user |-> NoUser]
            /\ UNCHANGED <<session, lastLogin>>
       ELSE LET r == login_by_email(email, password, token)
            IN /\ session' = r.session
               /\ resp' = [op |-> "login",
                           status |-> IF r.result = NoUser THEN 401 ELSE 200,
                           email |-> email, password |-> password,
                           user |-> r.result]
               /\ lastLogin' = IF r.result = NoUser THEN lastLogin
                               ELSE [username |-> r.result.username,
                                     time |-> now]
    /\ UNCHANGED <<tables, services, now>>

\* GET /api/auth/check: one access through get_current_user
check_auth ==
    LET g == get_current_user(session, now)
    IN /\ session' = g.session
       /\ resp' = [op |-> "check_auth",
                   status |-> IF g.user = NoUser THEN 401 ELSE 200,
                   user |-> g.user]
       /\ UNCHANGED <<tables, services, now, lastLogin>>

\* login_required, rejecting branch: the wrapped handler is not run
login_required_reject(op) ==
    LET g == get_current_user(session, now)
    IN /\ g.user = NoUser
       /\ session' = g.session
       /\ resp' = [op |-> op, status |-> 401]
       /\ UNCHANGED <<tables, services, now, lastLogin>>

\* POST /api/auth/logout (guarded): AuthManager.logout clears the session
logout ==
    /\ is_authenticated
    /\ session' = EmptySession
    /\ resp' = [op |-> "logout", status |-> 200]
    /\ UNCHANGED <<tables, services, now, lastLogin>>

\* Passage of time between requests, to a later instant t
Tick(t) ==
    /\ t > now
    /\ now' = t
    /\ resp' = [op |-> "tick", status |-> 0]
    /\ UNCHANGED <<tables, services, session, lastLogin>>

(***************************************************************************)
(* Stored text.  Every stored text (mail body, inquiry message, response   *)
(* text, thread message) is a record: the fields the extraction patterns   *)
(* of sync_emails find in it, and the rest of the text.                    *)
(***************************************************************************)
Text(s) == [name |-> NULL, company |-> << >>, phone |-> NULL, text |-> s]
EmptyText == Text("")

Addr(local, domain) == [local |-> local, domain |-> domain]

\* str.lower().replace(' ', '.').replace('*', '') on the names of the model
Slug(s) ==
    CASE s = "Ana Diaz" -> "ana.diaz"
      [] s = "Acme" -> "acme"
      [] OTHER -> s

(***************************************************************************)
(* Client routes.                                                          *)
(***************************************************************************)
ClientEmails == {c.email : c \in {clients[i] : i \in DOMAIN clients}}

InquiriesOf(inqs, client_id) ==
    {i \in DOMAIN inqs : inqs[i].client_id = client_id}

\* POST /api/clients; clients.email is UNIQUE, and the IntegrityError of a
\* second row with the same address leaves the handler as a 500
create_client(full_name, email) ==
    /\ is_authenticated
    /\ nextClientId <= MaxClients
    /\ IF email \in ClientEmails
       THEN /\ resp' = [op |-> "create_client", status |-> 500, client_id |-> 0]
            /\ UNCHANGED <<clients, nextClientId>>
       ELSE /\ clients' = [i \in DOMAIN clients \cup {nextClientId} |->
                             IF i = nextClientId
                             THEN [full_name |-> full_name, email |-> email,
                                   phone |-> NULL, company |-> NULL]
                             ELSE clients[i]]
            /\ nextClientId' = nextClientId + 1
            /\ resp' = [op |-> "create_client", status |-> 201,
                        client_id |-> nextClientId]
    /\ UNCHANGED <<publishers, nextPublisherId, services,
                 users, inquiries, responses, messages, session, now, lastLogin>>

\* The body of delete_client: the status it returns and the clients table
\* it commits
delete_client_delete_first(user, client_id) ==
    LET count == Cardinality(InquiriesOf(inquiries, client_id))
        after == [i \in DOMAIN clients \ {client_id} |-> clients[i]]
    IN IF RoleOf(user) \notin {"admin", "manager"}
       THEN [status |-> 403, clients |-> after, count |-> 0]
       ELSE IF count > 0
       THEN [status |-> 400, clients |-> after, count |-> count]
       ELSE IF client_id \notin DOMAIN clients
       THEN [status |-> 404, clients |-> clients, count |-> 0]
       ELSE [status |-> 200, clients |-> after, count |-> 0]

delete_client_body(user, client_id) ==
    LET count == Cardinality(InquiriesOf(inquiries, client_id))
    IN IF RoleOf(user) \notin {"admin", "manager"}
       THEN [status |-> 403, clients |-> clients, count |-> 0]
       ELSE IF count > 0
       THEN [status |-> 400, clients |-> clients, count |-> count]
       ELSE IF client_id \notin DOMAIN clients
       THEN [status |-> 404, clients |-> clients, count |-> 0]
       ELSE [status |-> 200,
             clients |-> [i \in DOMAIN clients \ {client_id} |-> clients[i]],
             count |-> 0]

\* DELETE /api/clients/<client_id>
delete_client(client_id) ==
    /\ is_authenticated
    /\ LET user == get_current_user(session, now).user
           r == delete_client_body(user, client_id)
       IN /\ clients' = r.clients
          /\ resp' = [op |-> "delete_client", status |-> r.status,
                      client_id |-> client_id, inquiries_count |-> r.count]
    /\ UNCHANGED <<publishers, nextPublisherId, services,
                 users, nextClientId, inquiries, responses, messages,
                   session, now, lastLogin>>

(***************************************************************************)
(* Inquiry and response routes.                                            *)
(***************************************************************************)
\* POST /api/inquiries; the foreign key on client_id is not enforced
\* (the connection never sets PRAGMA foreign_keys)
create_inquiry(client_id, subject, message) ==
    /\ is_authenticated
    /\ Len(inquiries) < MaxInquiries
    /\ inquiries' = Append(inquiries,
                           [client_id |-> client_id, subject |-> subject,
                            message |-> message, status |-> "pending",
                            responded_at |-> NULLINT])
    /\ resp' = [op |-> "create_inquiry", status |-> 201,
                inquiry_id |-> Len(inquiries) + 1]
    /\ UNCHANGED <<publishers, nextPublisherId, services,
                 users, clients, nextClientId, responses, messages,
                   session, now, lastLogin>>

\* INSERT INTO responses: the columns of create_tables.py and the defaults
\* of the two migrations
NewResponse(inquiry_id, user_id, response_text, t) ==
    [inquiry_id |-> inquiry_id, user_id |-> user_id,
     response_text |-> response_text, sent_at |-> t,
     client_replied |-> 0, follow_up_method |-> NULL, deal_status |-> "open"]

\* the initial message of a response's conversation thread
InitialMessage_none(response_id, response_text) == << >>

InitialMessage(response_id, response_text) ==
    << [response_id |-> response_id, sender |-> "agent",
        message |-> response_text] >>

\* UPDATE inquiries SET status='responded', responded_at=? WHERE id=?
MarkResponded(inqs, inquiry_id, t) ==
    [i \in DOMAIN inqs |->
        IF i = inquiry_id
        THEN [inqs[i] EXCEPT !.status = "responded", !.responded_at = t]
        ELSE inqs[i]]

\* POST /api/responses
create_response(inquiry_id, response_text) ==
    /\ is_authenticated
    /\ IF inquiry_id = 0 \/ response_text = EmptyText
       THEN /\ resp' = [op |-> "create_response", status |-> 400,
                        response_id |-> 0]
            /\ UNCHANGED <<inquiries, responses, messages>>
       ELSE LET user == get_current_user(session, now).user
                response_id == Len(responses) + 1
            IN /\ Len(responses) < MaxResponses
               /\ Len(messages) < MaxMessages
               /\ responses' = Append(responses,
                      NewResponse(inquiry_id, user.id, response_text, now))
               /\ messages' = messages \o
                                InitialMessage(response_id, response_text)
               /\ inquiries' = MarkResponded(inquiries, inquiry_id, now)
               /\ resp' = [op |-> "create_response", status |-> 201,
                           response_id |-> response_id]
    /\ UNCHANGED <<publishers, nextPublisherId, services,
                 users, clients, nextClientId, session, now, lastLogin>>

\* Database.get_connection around a block of statements: work is the
\* sequence of database states the statements produce one after the other,
\* failed the number of the statement that raises (0: none).  The block is
\* committed whole, or rolled back and the exception raised again; the
\* connection is closed either way.
get_connection_no_rollback(before, work, failed) ==
    IF failed = 0
    THEN [db |-> work[Len(work)], raised |-> FALSE, closed |-> TRUE]
    ELSE [db |-> IF failed = 1 THEN before ELSE work[failed - 1],
          raised |-> TRUE, closed |-> TRUE]

get_connection(before, work, failed) ==
    IF failed = 0
    THEN [db |-> work[Len(work)], raised |-> FALSE, closed |-> TRUE]
    ELSE [db |-> before, raised |-> TRUE, closed |-> TRUE]

\* POST /api/responses when statement number failed of its block raises a
\* storage error: the exception leaves the handler and Flask answers 500
create_response_fails(inquiry_id, response_text, failed) ==
    /\ is_authenticated
    /\ inquiry_id # 0
    /\ response_text # EmptyText
    /\ Len(responses) < MaxResponses
    /\ Len(messages) < MaxMessages
    /\ LET user == get_current_user(session, now).user
           response_id == Len(responses) + 1
           before == [inquiries |-> inquiries, responses |-> responses,
                      messages |-> messages]
           s1 == [before EXCEPT !.responses =
                    Append(responses, NewResponse(inquiry_id, user.id,
                                                  response_text, now))]
           s2 == [s1 EXCEPT !.messages =
                    messages \o InitialMessage(response_id, response_text)]
           s3 == [s2 EXCEPT !.inquiries =
                    MarkResponded(inquiries, inquiry_id, now)]
           c == get_connection(before, <<s1, s2, s3>>, failed)
       IN /\ inquiries' = c.db.inquiries
          /\ responses' = c.db.responses
          /\ messages' = c.db.messages
          /\ resp' = [op |-> "create_response",
                      status |-> IF c.raised THEN 500 ELSE 201,
                      response_id |-> IF c.raised THEN 0 ELSE response_id]
    /\ UNCHANGED <<publishers, nextPublisherId, services,
                   users, clients, nextClientId, session, now, lastLogin>>

\* PUT /api/responses/<response_id>/mark-replied
mark_client_replied(response_id, client_replied) ==
    /\ is_authenticated
    /\ IF response_id \notin DOMAIN responses
       THEN /\ resp' = [op |-> "mark_client_replied", status |-> 404,
                        response_id |-> response_id]
            /\ UNCHANGED responses
       ELSE /\ responses' = [responses EXCEPT
                               ![response_id].client_replied = client_replied]
            /\ resp' = [op |-> "mark_client_replied", status |-> 200,
                        response_id |-> response_id]
    /\ UNCHANGED <<publishers, nextPublisherId, services,
                 users, clients, nextClientId, inquiries, messages,
                   session, now, lastLogin>>

\* PUT /api/responses/<response_id>/update-follow-up; an absent (None) field
\* is left alone
update_follow_up(response_id, follow_up_method, deal_status, client_replied) ==
    /\ is_authenticated
    /\ IF response_id \notin DOMAIN responses
       THEN /\ resp' = [op |-> "update_follow_up", status |-> 404,
                        response_id |-> response_id]
            /\ UNCHANGED responses
       ELSE /\ responses' = [responses EXCEPT ![response_id] =
                  [@ EXCEPT
                     !.follow_up_method =
                        IF follow_up_method # NULL THEN follow_up_method ELSE @,
                     !.deal_status =
                        IF deal_status # NULL THEN deal_status ELSE @,
                     !.client_replied =
                        IF client_replied # NULLINT THEN client_replied ELSE @]]
            /\ resp' = [op |-> "update_follow_up", status |-> 200,
                        response_id |-> response_id]
    /\ UNCHANGED <<publishers, nextPublisherId, services,
                 users, clients, nextClientId, inquiries, messages,
                   session, now, lastLogin>>

add_message_any_sender(response_id, sender, message) ==
    /\ is_authenticated
    /\ IF sender = "" \/ message = EmptyText
       THEN /\ resp' = [op |-> "add_message", status |-> 400,
                        response_id |-> response_id]
            /\ UNCHANGED <<responses, messages>>
       ELSE IF response_id \notin DOMAIN responses
       THEN /\ resp' = [op |-> "add_message", status |-> 404,
                        response_id |-> response_id]
            /\ UNCHANGED <<responses, messages>>
       ELSE /\ Len(messages) < MaxMessages
            /\ messages' = Append(messages,
                                  [response_id |-> response_id,
                                   sender |-> sender, message |-> message])
            /\ responses' =
                 IF sender = "client"
                 THEN [responses EXCEPT
                         ![response_id].client_replied = 1,
                         ![response_id].follow_up_method = "email"]
                 ELSE responses
            /\ resp' = [op |-> "add_message", status |-> 201,
                        response_id |-> response_id]
    /\ UNCHANGED <<publishers, nextPublisherId, services,
                 users, clients, nextClientId, inquiries, session, now, lastLogin>>

\* POST /api/responses/<response_id>/add-message
add_message_to_conversation(response_id, sender, message) ==
    /\ is_authenticated
    /\ IF sender = "" \/ message = EmptyText \/ sender \notin {"agent", "client"}
       THEN /\ resp' = [op |-> "add_message", status |-> 400,
                        response_id |-> response_id]
            /\ UNCHANGED <<responses, messages>>
       ELSE IF response_id \notin DOMAIN responses
       THEN /\ resp' = [op |-> "add_message", status |-> 404,
                        response_id |-> response_id]
            /\ UNCHANGED <<responses, messages>>
       ELSE /\ Len(messages) < MaxMessages
            /\ messages' = Append(messages,
                                  [response_id |-> response_id,
                                   sender |-> sender, message |-> message])
            /\ responses' =
                 IF sender = "client"
                 THEN [responses EXCEPT
                         ![response_id].client_replied = 1,
                         ![response_id].follow_up_method = "email"]
                 ELSE responses
            /\ resp' = [op |-> "add_message", status |-> 201,
                        response_id |-> response_id]
    /\ UNCHANGED <<publishers, nextPublisherId, services,
                 users, clients, nextClientId, inquiries, session, now, lastLogin>>

(***************************************************************************)
(* Email sync (POST /api/email/sync).                                      *)
(*                                                                         *)
(* The unread mail that fetch_new_emails can hand to one call: a sequence  *)
(* of at most MaxBatch records {from, subject, body} drawn from MailPool.  *)
(***************************************************************************)
Ana == Addr("ana", "x.com")
Postmaster == Addr("postmaster", NULL)

\* a body in which at most one company pattern matches
Body(name, company, phone) ==
    [name |-> name, company |-> IF company = NULL THEN << >> ELSE <<company>>,
     phone |-> phone, text |-> "mail"]

Mail(from, subject, body) == [from |-> from, subject |-> subject, body |-> body]

\* four fields / three fields and no subject / three fields, no company
\* (two subjects) / three fields, no name / two fields / two fields and a
\* sender address without '@'
MailA == Mail(Ana, "Quote", Body("Ana Diaz", "Acme", "555123"))
MailB == Mail(Ana, "", Body("Ana Diaz", "Acme", NULL))
MailC == Mail(Ana, "Quote", Body("Ana Diaz", NULL, "555123"))
MailD == Mail(Ana, "Order", Body("Ana Diaz", NULL, "555123"))
MailG == Mail(Ana, "Quote", Body(NULL, "Acme", "555123"))
MailE == Mail(Ana, "Quote", Body(NULL, "Acme", NULL))
MailF == Mail(Postmaster, "Quote", Body("Ana Diaz", "Acme", NULL))

MailPool == {MailA, MailB, MailC, MailD, MailG, MailE, MailF}

BatchesOf(pool) == UNION {[1..n -> pool] : n \in 0..MaxBatch}

\* the results of the four pattern cascades on a body
ExtractPhone(body) == body.phone

\* match.group(1).strip().replace('*', ''), then re.sub(r'\s+', ' ', ...)
\* and re.sub(r'[.,]+$', '', ...), on the captured groups of the model
Clean(s) ==
    CASE s = "IBM " -> "IBM"
      [] s = "Initech  Inc" -> "Initech Inc"
      [] OTHER -> s

\* the loop over company_patterns from the k-th matching pattern on: every
\* match is assigned to company, and the loop is left at the first match
\* whose cleaned text is longer than 3 characters
RECURSIVE company_loop(_, _, _)
company_loop(matches, k, company) ==
    IF k > Len(matches)
    THEN company
    ELSE IF Len(Clean(matches[k])) > 3
    THEN Clean(matches[k])
    ELSE company_loop(matches, k + 1, Clean(matches[k]))

ExtractCompany(body) == company_loop(body.company, 1, NULL)
ExtractName(from, body) == IF body.name # NULL THEN body.name ELSE from.local
ExtractEmail(from, body) == from

Bool2Int(b) == IF b THEN 1 ELSE 0

\* the four flags of the field-completeness gate
valid_name(m) ==
    LET full_name == ExtractName(m.from, m.body)
    IN full_name # "" /\ full_name # m.from.local /\ Len(full_name) > 2
valid_email(m) == ExtractEmail(m.from, m.body).domain # NULL
valid_phone(m) == ExtractPhone(m.body) # NULL
valid_company(m) ==
    ExtractCompany(m.body) # NULL /\ Len(ExtractCompany(m.body)) > 1

valid_fields_count(m) ==
    Bool2Int(valid_name(m)) + Bool2Int(valid_email(m))
    + Bool2Int(valid_phone(m)) + Bool2Int(valid_company(m))

\* datetime.now().strftime('%d/%m/%Y')
CurrentDate(t) == ToString(t \div 86400)

\* subject synthesis
SubjectOf(m, t) ==
    IF m.subject = ""
    THEN IF ExtractCompany(m.body) # NULL
         THEN ExtractCompany(m.body) \o " - " \o CurrentDate(t)
         ELSE ExtractName(m.from, m.body) \o " - " \o CurrentDate(t)
    ELSE m.subject

SyntheticEmail(full_name, company) ==
    Addr(Slug(full_name) \o "." \o
           (IF company # NULL THEN Slug(company) ELSE "unknown"),
         "internal.local")

\* SELECT id, email FROM clients WHERE full_name = ? AND company = ?
\* with company bound to '' when none was extracted; a NULL company column
\* equals nothing
FindClient(cl, full_name, company) ==
    {i \in DOMAIN cl :
        /\ cl[i].full_name = full_name
        /\ cl[i].company # NULL
        /\ cl[i].company = (IF company # NULL THEN company ELSE "")}

\* SELECT id FROM inquiries WHERE client_id=? AND subject=? AND message=?
ExistingInquiry_responded(inqs, client_id, subject, body) ==
    {i \in DOMAIN inqs : inqs[i].client_id = client_id
                         /\ inqs[i].subject = subject
                         /\ inqs[i].message = body
                         /\ inqs[i].status = "responded"}

ExistingInquiry(inqs, client_id, subject, body) ==
    {i \in DOMAIN inqs : inqs[i].client_id = client_id
                         /\ inqs[i].subject = subject
                         /\ inqs[i].message = body}

\* the auto-detection query: the responses r joined to an inquiry of the
\* client with r.client_replied = 0, ORDER BY r.sent_at DESC LIMIT 1; rows
\* with equal sent_at come in an order SQL leaves open
PendingResponse_oldest(inqs, rs, client_id) ==
    LET cand == {r \in DOMAIN rs :
                    /\ rs[r].inquiry_id \in DOMAIN inqs
                    /\ inqs[rs[r].inquiry_id].client_id = client_id
                    /\ rs[r].client_replied = 0}
    IN {r \in cand : \A q \in cand : rs[q].sent_at >= rs[r].sent_at}

PendingResponse(inqs, rs, client_id) ==
    LET cand == {r \in DOMAIN rs :
                    /\ rs[r].inquiry_id \in DOMAIN inqs
                    /\ inqs[rs[r].inquiry_id].client_id = client_id
                    /\ rs[r].client_replied = 0}
    IN {r \in cand : \A q \in cand : rs[q].sent_at <= rs[r].sent_at}

\* The state one sync call carries from message to message: the committed
\* tables and the two counters.
SyncState(cl, nid, inqs, rs, msgs, count, rejected, status) ==
    [clients |-> cl, nextClientId |-> nid, inquiries |-> inqs,
     responses |-> rs, messages |-> msgs, count |-> count,
     rejected |-> rejected, status |-> status]

\* the gate of the loop body
Rejected(m) == valid_fields_count(m) < MIN_REQUIRED_FIELDS

\* The statements the loop body runs on an accepted message m inside its
\* `with db.get_connection()` block, given the row the client lookup
\* returned (client 0: no row): the database states they produce one after
\* the other, from the inquiry INSERT on.  inquiry_statements is the part
\* after the duplicate test, one sequence per row the auto-detection query
\* may return.
inquiry_statements_tested(st, m, t, client_id) ==
    IF ExistingInquiry(st.inquiries, client_id, SubjectOf(m, t), m.body) # {}
    THEN {<<st>>}
    ELSE {<<[st EXCEPT !.inquiries =
                 Append(@, [client_id |-> client_id, subject |-> SubjectOf(m, t),
                            message |-> m.body, status |-> "pending",
                            responded_at |-> NULLINT]),
               !.count = @ + 1]>>}

inquiry_statements(st, m, t, client_id) ==
    LET body == m.body
        subject == SubjectOf(m, t)
        inqs1 == Append(st.inquiries,
                        [client_id |-> client_id, subject |-> subject,
                         message |-> body, status |-> "pending",
                         responded_at |-> NULLINT])
        st2 == [st EXCEPT !.inquiries = inqs1, !.count = @ + 1]
        pending == PendingResponse(inqs1, st.responses, client_id)
    IN IF pending = {}
       THEN {<<st2>>}
       ELSE {<<st2,
               [st2 EXCEPT !.responses[r].client_replied = 1,
                           !.responses[r].follow_up_method = "email"],
               [st2 EXCEPT !.responses[r].client_replied = 1,
                           !.responses[r].follow_up_method = "email",
                           !.messages = Append(@, [response_id |-> r,
                                                   sender |-> "client",
                                                   message |-> body])]>>
             : r \in pending}

\* the client INSERT (client 0) or the phone UPDATE, where there is one
client_statement(st, m, client) ==
    LET full_name == ExtractName(m.from, m.body)
        company == ExtractCompany(m.body)
        phone == ExtractPhone(m.body)
    IN IF client = 0
       THEN [st EXCEPT
               !.clients = [i \in DOMAIN st.clients \cup {st.nextClientId} |->
                              IF i = st.nextClientId
                              THEN [full_name |-> full_name,
                                    email |-> SyntheticEmail(full_name, company),
                                    phone |-> phone, company |-> company]
                              ELSE st.clients[i]],
               !.nextClientId = @ + 1]
       ELSE IF phone # NULL /\ client \in DOMAIN st.clients
       THEN [st EXCEPT !.clients[client].phone = phone]
       ELSE st

\* the whole block: the client statement, the duplicate test and what
\* follows it
message_statements(st, m, t, client) ==
    LET client_id == IF client = 0 THEN st.nextClientId ELSE client
        st1 == client_statement(st, m, client)
    IN IF ExistingInquiry(st.inquiries, client_id, SubjectOf(m, t), m.body) # {}
       THEN {<<st1>>}
       ELSE {<<st1>> \o w : w \in inquiry_statements(st1, m, t, client_id)}

\* the statement of the block that raises sqlite3.IntegrityError (0: none):
\* the INSERT of a second client row with the same synthetic address
integrity_error(st, m, client) ==
    IF client = 0
       /\ \E i \in DOMAIN st.clients :
             st.clients[i].email = SyntheticEmail(ExtractName(m.from, m.body),
                                                  ExtractCompany(m.body))
    THEN 1
    ELSE 0

\* the block under get_connection when statement number failed raises: the
\* exception leaves the loop and sync_emails answers 500
transaction(st, work, failed) ==
    LET c == get_connection(st, work, failed)
    IN IF c.raised THEN [c.db EXCEPT !.status = 500] ELSE c.db

\* One iteration of the loop of sync_emails on message m: the set of states
\* it can leave (one per row the auto-detection query may return).  The
\* transaction of an accepted message commits as a whole or, on the
\* IntegrityError of a second client row with the same synthetic address,
\* rolls back and ends the call with status 500.
process_email(st, m, t) ==
    IF Rejected(m)
    THEN {[st EXCEPT !.rejected = @ + 1]}
    ELSE
    LET found == FindClient(st.clients, ExtractName(m.from, m.body),
                            ExtractCompany(m.body))
    IN UNION { {transaction(st, work, integrity_error(st, m, client))
                  : work \in message_statements(st, m, t, client)}
               : client \in IF found = {} THEN {0} ELSE found }

\* the loop over the fetched messages, from message k on
RECURSIVE sync_loop(_, _, _, _)
sync_loop(st, batch, k, t) ==
    IF k > Len(batch)
    THEN {st}
    ELSE UNION { IF s.status = 500 THEN {s} ELSE sync_loop(s, batch, k + 1, t)
                 : s \in process_email(st, batch[k], t) }

\* POST /api/email/sync on the unread messages batch
sync_emails(batch) ==
    /\ is_authenticated
    /\ \E s \in sync_loop(SyncState(clients, nextClientId, inquiries,
                                    responses, messages, 0, 0, 200),
                          batch, 1, now) :
          /\ s.nextClientId <= MaxClients + 1
          /\ Len(s.inquiries) <= MaxInquiries
          /\ Len(s.messages) <= MaxMessages
          /\ clients' = s.clients
          /\ nextClientId' = s.nextClientId
          /\ inquiries' = s.inquiries
          /\ responses' = s.responses
          /\ messages' = s.messages
          /\ resp' = [op |-> "sync_emails", status |-> s.status,
                      count |-> IF s.status = 200 THEN s.count ELSE -1,
                      rejected |-> IF s.status = 200 THEN s.rejected ELSE -1,
                      total_processed |-> Len(batch)]
    /\ UNCHANGED <<publishers, nextPublisherId, services,
                 users, session, now, lastLogin>>

(***************************************************************************)
(* Publishers.  A record of the uploaded list is a JSON object, here a     *)
(* record with some of the keys name, email, category, status.             *)
(* publishers.name and publishers.email are NOT NULL and email is UNIQUE   *)
(* (create_tables.py); INSERT OR IGNORE skips a row that breaks either.    *)
(***************************************************************************)
BATCH_SIZE == 100

Get(p, key, default) == IF key \in DOMAIN p THEN p[key] ELSE default

\* the parameter tuple bulk_insert_publishers builds from one record
PublisherParams(p) ==
    [name |-> Get(p, "name", NULL), email |-> Get(p, "email", NULL),
     category |-> Get(p, "category", ""), status |-> Get(p, "status", "active")]

PublisherEmails(pubs) == {pubs[i].email : i \in DOMAIN pubs}

\* uploaded records: PubA2 repeats PubA's email, PubN has no name
PubA == [name |-> "Acme", email |-> "a@pub.com"]
PubA2 == [name |-> "Acme Two", email |-> "a@pub.com", category |-> "news"]
PubB == [name |-> "Beta", email |-> "b@pub.com", status |-> "inactive"]
PubC == [name |-> "Core", email |-> "c@press.org"]
PubN == [email |-> "n@pub.com"]

\* INSERT OR IGNORE, row k of a parameter list: the row is skipped when it
\* would break NOT NULL (name, email) or UNIQUE (email), the latter against
\* the rows of the table and against the rows of the list stored before it
Ignored_null_only(pubs, params_list, k) ==
    \/ params_list[k].name = NULL
    \/ params_list[k].email = NULL

Ignored(pubs, params_list, k) ==
    \/ params_list[k].name = NULL
    \/ params_list[k].email = NULL
    \/ params_list[k].email \in PublisherEmails(pubs)
    \/ \E j \in 1..(k - 1) : /\ params_list[j].name # NULL
                             /\ params_list[j].email = params_list[k].email

\* (INSERT OR REPLACE: a stored row with the email of a new one is deleted)
execute_many_replace(pubs, next, params_list) ==
    LET valid == {k \in 1..Len(params_list) :
                    ~Ignored_null_only(pubs, params_list, k)}
        stored == {k \in valid :
                     \A j \in valid :
                        j > k => params_list[j].email # params_list[k].email}
        kept == {i \in DOMAIN pubs :
                   \A k \in stored : pubs[i].email # params_list[k].email}
        id(k) == next + Cardinality({j \in stored : j < k})
    IN [publishers |-> [i \in kept \cup {id(k) : k \in stored} |->
                          IF i \in kept THEN pubs[i]
                          ELSE params_list[CHOOSE k \in stored : id(k) = i]],
        nextPublisherId |-> next + Cardinality(stored),
        rowcount |-> Cardinality(valid)]

\* Database.execute_many: conn.executemany inserts the rows in list order
\* in one transaction; the rows stored take the next ids, and the cursor's
\* rowcount is their number
execute_many(pubs, next, params_list) ==
    LET stored == {k \in 1..Len(params_list) : ~Ignored(pubs, params_list, k)}
        id(k) == next + Cardinality({j \in stored : j < k})
    IN [publishers |-> [i \in DOMAIN pubs \cup {id(k) : k \in stored} |->
                          IF i \in DOMAIN pubs THEN pubs[i]
                          ELSE params_list[CHOOSE k \in stored : id(k) = i]],
        nextPublisherId |-> next + Cardinality(stored),
        rowcount |-> Cardinality(stored)]

\* the loop of bulk_insert_publishers: i runs over range(0, len, batch_size)
RECURSIVE bulk_insert_loop(_, _, _)
bulk_insert_loop(db, params_list, i) ==
    IF i >= Len(params_list) THEN db
    ELSE LET last == IF i + BATCH_SIZE < Len(params_list)
                     THEN i + BATCH_SIZE ELSE Len(params_list)
             r == execute_many(db.publishers, db.nextPublisherId,
                               SubSeq(params_list, i + 1, last))
         IN bulk_insert_loop([publishers |-> r.publishers,
                              nextPublisherId |-> r.nextPublisherId,
                              total_inserted |-> db.total_inserted + r.rowcount],
                             params_list, i + BATCH_SIZE)

bulk_insert_publishers(pubs, next, publishers_data) ==
    bulk_insert_loop([publishers |-> pubs, nextPublisherId |-> next,
                      total_inserted |-> 0],
                     [k \in 1..Len(publishers_data) |->
                        PublisherParams(publishers_data[k])], 0)

\* POST /api/publishers/bulk-import (guarded); the answer is kept together
\* with the list that was sent
bulk_upload_publishers(publishers_data) ==
    /\ is_authenticated
    /\ IF publishers_data = << >>
       THEN /\ resp' = [op |-> "bulk_upload_publishers", status |-> 400,
                        request |-> publishers_data,
                        imported |-> 0, total |-> 0]
            /\ UNCHANGED <<publishers, nextPublisherId>>
       ELSE LET r == bulk_insert_publishers(publishers, nextPublisherId,
                                            publishers_data)
            IN /\ publishers' = r.publishers
               /\ nextPublisherId' = r.nextPublisherId
               /\ resp' = [op |-> "bulk_upload_publishers", status |-> 200,
                           request |-> publishers_data,
                           imported |-> r.total_inserted,
                           total |-> Len(publishers_data)]
    /\ UNCHANGED <<users, clients, nextClientId, inquiries, responses,
                   messages, session, now, lastLogin, services>>

(***************************************************************************)
(* Paginated listings.  A listing is the sequence of the ids of its rows.  *)
(* value LIKE '%term%' is decided on the fragments of the model's strings; *)
(* a mail address of the clients table is matched on its two parts.        *)
(***************************************************************************)
Fragments(s) ==
    CASE s = "Acme" -> {"acme"}
      [] s = "Acme Two" -> {"acme", "two"}
      [] s = "Beta" -> {"beta"}
      [] s = "Core" -> {"core"}
      [] s = "a@pub.com" -> {"a@", "pub.com"}
      [] s = "b@pub.com" -> {"b@", "pub.com"}
      [] s = "c@press.org" -> {"c@", "press.org"}
      [] s = "Ana Diaz" -> {"ana", "diaz"}
      [] OTHER -> {}

like(value, term) == value # NULL /\ term \in Fragments(value)

like_addr(addr, term) ==
    \/ term \in Fragments(addr.local) \cup {addr.local}
    \/ (addr.domain # NULL /\ term = addr.domain)

\* the position of a publisher name in ORDER BY name ASC
NameRank(s) ==
    CASE s = "Acme" -> 1
      [] s = "Acme Two" -> 2
      [] s = "Beta" -> 3
      [] s = "Core" -> 4
      [] OTHER -> 0

\* ORDER BY: the ids of S by ascending key, rows of equal key in rowid order
OrderBy(S, key) ==
    LET Before(i) == {j \in S : \/ key[j] < key[i]
                               \/ (key[j] = key[i] /\ j < i)}
    IN [k \in 1..Cardinality(S) |->
          CHOOSE i \in S : Cardinality(Before(i)) = k - 1]

\* LIMIT ? OFFSET ?
LimitOffset(seq, limit, offset) ==
    SubSeq(seq, offset + 1,
           IF offset + limit < Len(seq) THEN offset + limit ELSE Len(seq))

\* a WHERE clause "column = ?" with its parameter; NoWhere is None
NoWhere == [column |-> NULL, value |-> NULL]

Matching(rows, where) ==
    {i \in DOMAIN rows :
       where.column = NULL \/ rows[i][where.column] = where.value}

\* Database.get_paginated with the default order_by "id DESC"
get_paginated_offset_by_page(rows, page, per_page, where) ==
    LET offset == page * per_page
        total == Cardinality(Matching(rows, where))
        data == LimitOffset(OrderBy(Matching(rows, where),
                                    [i \in DOMAIN rows |-> 0 - i]),
                            per_page, offset)
    IN [data |-> data, total |-> total, page |-> page,
        pages |-> (total + per_page - 1) \div per_page, per_page |-> per_page]

get_paginated(rows, page, per_page, where) ==
    LET offset == (page - 1) * per_page
        total == Cardinality(Matching(rows, where))
        data == LimitOffset(OrderBy(Matching(rows, where),
                                    [i \in DOMAIN rows |-> 0 - i]),
                            per_page, offset)
    IN [data |-> data, total |-> total, page |-> page,
        pages |-> (total + per_page - 1) \div per_page, per_page |-> per_page]

\* a call of db.get_paginated('publishers', ...); it reads only
paginate_publishers(page, per_page, where) ==
    /\ resp' = [op |-> "get_paginated", status |-> 200, where |-> where,
                result |-> get_paginated(publishers, page, per_page, where)]
    /\ UNCHANGED <<tables, services, session, now, lastLogin>>

\* GET /api/publishers (guarded): the rows are those matching the search,
\* the total is COUNT(*) of the whole table
get_publishers(page, per_page, search) ==
    /\ is_authenticated
    /\ LET found == IF search = "" THEN DOMAIN publishers
                    ELSE {i \in DOMAIN publishers :
                            \/ like(publishers[i].name, search)
                            \/ like(publishers[i].email, search)}
           rows == LimitOffset(OrderBy(found,
                                 [i \in DOMAIN publishers |->
                                    NameRank(publishers[i].name)]),
                               per_page, (page - 1) * per_page)
           total == Cardinality(DOMAIN publishers)
       IN resp' = [op |-> "get_publishers", status |-> 200,
                   search |-> search, data |-> rows, total |-> total,
                   page |-> page,
                   pages |-> (total + per_page - 1) \div per_page,
                   per_page |-> per_page]
    /\ UNCHANGED <<tables, services, session, now, lastLogin>>

\* GET /api/clients (guarded): no ORDER BY, the rows come in rowid order
get_clients(page, per_page, search) ==
    /\ is_authenticated
    /\ LET found == IF search = "" THEN DOMAIN clients
                    ELSE {i \in DOMAIN clients :
                            \/ like(clients[i].full_name, search)
                            \/ like_addr(clients[i].email, search)}
           rows == LimitOffset(OrderBy(found, [i \in DOMAIN clients |-> 0]),
                               per_page, (page - 1) * per_page)
           total == Cardinality(DOMAIN clients)
       IN resp' = [op |-> "get_clients", status |-> 200,
                   search |-> search, data |-> rows, total |-> total,
                   page |-> page,
                   pages |-> (total + per_page - 1) \div per_page,
                   per_page |-> per_page]
    /\ UNCHANGED <<tables, services, session, now, lastLogin>>

(***************************************************************************)
(* The remaining routes that write rows.                                   *)
(***************************************************************************)
\* PUT /api/clients/<client_id> (guarded): every column is overwritten with
\* the request's value, None where the request has none; a NULL full_name or
\* email, or the email of another client, is an IntegrityError and a 500
update_client(client_id, full_name, email, phone, company) ==
    /\ is_authenticated
    /\ IF client_id \notin DOMAIN clients
       THEN /\ resp' = [op |-> "update_client", status |-> 200,
                        client_id |-> client_id]
            /\ UNCHANGED clients
       ELSE IF \/ full_name = NULL
               \/ \E i \in DOMAIN clients \ {client_id} :
                     clients[i].email = email
       THEN /\ resp' = [op |-> "update_client", status |-> 500,
                        client_id |-> client_id]
            /\ UNCHANGED clients
       ELSE /\ clients' = [clients EXCEPT ![client_id] =
                             [full_name |-> full_name, email |-> email,
                              phone |-> phone, company |-> company]]
            /\ resp' = [op |-> "update_client", status |-> 200,
                        client_id |-> client_id]
    /\ UNCHANGED <<publishers, nextPublisherId, services, users, nextClientId,
                   inquiries, responses, messages, session, now, lastLogin>>

\* POST /api/admin/migrate-conversations (guarded): for a caller whose role
\* is admin, one 'agent' message for every response without a thread
migrate_existing_conversations ==
    /\ is_authenticated
    /\ LET user == get_current_user(session, now).user
           missing == {r \in DOMAIN responses :
                         \A k \in DOMAIN messages : messages[k].response_id # r}
           order == OrderBy(missing, [r \in DOMAIN responses |-> 0])
       IN IF RoleOf(user) # "admin"
          THEN /\ resp' = [op |-> "migrate_conversations", status |-> 403,
                           migrated |-> 0]
               /\ UNCHANGED messages
          ELSE /\ Len(messages) + Len(order) <= MaxMessages
               /\ messages' = messages \o
                    [k \in 1..Len(order) |->
                       [response_id |-> order[k], sender |-> "agent",
                        message |-> responses[order[k]].response_text]]
               /\ resp' = [op |-> "migrate_conversations", status |-> 200,
                           migrated |-> Len(order)]
    /\ UNCHANGED <<publishers, nextPublisherId, services, users, clients,
                   nextClientId, inquiries, responses, session, now, lastLogin>>

(***************************************************************************)
(* The IMAP inbox and EmailHandler.fetch_new_emails.  inbox is the         *)
(* mailbox: the messages in the order of their numbers, each with its      *)
(* \Seen flag and, as history, the monitor threads and the sync requests   *)
(* whose fetch returned it.  A message is its From header (display name    *)
(* and address), its Subject header and its text/plain payload.  An IMAP   *)
(* session is the record of what the server answers: up to the search,     *)
(* the call that raises ("connect", "select", "search") or the status the  *)
(* search returns ("NO", "OK"); then the status of the fetch of each       *)
(* message number ("raise": the call raises).                              *)
(***************************************************************************)
Rfc822(name, address, subject, payload) ==
    [From |-> <<name, address>>, Subject |-> subject, payload |-> payload]

Unread(message) ==
    [message |-> message, seen |-> FALSE, logged_by |-> {}, synced_by |-> {}]

extract_name_from_email(from_header) == from_header[1]
extract_email_address(from_header) == from_header[2]
decode_email_header(header) == header
get_email_body(msg) == msg.payload

\* the dict fetch_new_emails builds from a fetched message
EmailData(msg) ==
    [from |-> extract_email_address(decode_email_header(msg.From)),
     name |-> extract_name_from_email(decode_email_header(msg.From)),
     subject |-> decode_email_header(msg.Subject),
     body |-> get_email_body(msg)]

Statuses == {"OK", "NO", "raise"}
ImapSessions ==
    [search : {"connect", "select", "search", "NO", "OK"},
     fetch : [1..MaxInbox -> Statuses]]
ImapOK == [search |-> "OK", fetch |-> [n \in 1..MaxInbox |-> "OK"]]

\* mail.search(None, '(UNSEEN)'): the numbers of the unseen messages
Unseen(box) ==
    SelectSeq([n \in 1..Len(box) |-> n], LAMBDA n : ~box[n].seen)

\* connect_imap, select and search: the message numbers the loop will
\* fetch; none when a call raises or the search status is not OK
search(box, imap) == IF imap.search = "OK" THEN Unseen(box) ELSE << >>

\* The loop over the message numbers, from the k-th on, by the fetch caller
\* by (a monitor thread or a sync request): a fetch that raises ends the
\* call with what was collected, a status that is not OK skips the
\* message, and a fetched message is marked \Seen by the server.
RECURSIVE fetch_loop(_, _, _, _, _, _)
fetch_loop_stop_at_no(box, nums, k, imap, new_emails, by) ==
    LET stop == {j \in k..Len(nums) : imap.fetch[nums[j]] # "OK"}
        got == {j \in k..Len(nums) : \A i \in stop : j < i}
    IN [new_emails |-> new_emails \o [j \in 1..Cardinality(got) |->
                                        EmailData(box[nums[k + j - 1]].message)],
        inbox |-> [n \in DOMAIN box |->
                     IF \E j \in got : nums[j] = n
                     THEN [box[n] EXCEPT !.seen = TRUE,
                                         ![by.kind] = @ \cup {by.id}]
                     ELSE box[n]],
        raised |-> FALSE]

fetch_loop(box, nums, k, imap, new_emails, by) ==
    IF k > Len(nums) \/ imap.fetch[nums[k]] = "raise"
    THEN [new_emails |-> new_emails, inbox |-> box, raised |-> FALSE]
    ELSE IF imap.fetch[nums[k]] # "OK"
    THEN fetch_loop(box, nums, k + 1, imap, new_emails, by)
    ELSE fetch_loop([box EXCEPT ![nums[k]].seen = TRUE,
                                ![nums[k]][by.kind] = @ \cup {by.id}],
                    nums, k + 1, imap,
                    Append(new_emails, EmailData(box[nums[k]].message)), by)

\* fetch_new_emails run without another IMAP client in between
fetch_new_emails(box, imap, by) ==
    fetch_loop(box, search(box, imap), 1, imap, << >>, by)

Monitor(w) == [kind |-> "logged_by", id |-> w]
Request(r) == [kind |-> "synced_by", id |-> r]

\* a message arrives in the inbox
deliver(message) ==
    /\ Len(inbox) < MaxInbox
    /\ inbox' = Append(inbox, Unread(message))
    /\ UNCHANGED <<tables, session, now, resp, lastLogin, monitoring_thread,
                   stop_event, workers, callers, ai_assistant, syncs>>

(***************************************************************************)
(* Email sync requests that run at the same time (POST /api/email/sync in  *)
(* the request threads Requests).  syncs holds the locals of each handler  *)
(* under way: pc ("idle": not running; the outcome of the last call, its   *)
(* status, counters and the index it reached, is kept as history),         *)
(* the message numbers of the search, new_emails, the index k of the       *)
(* message in hand, the row of the client lookup and the two counters.     *)
(* Every call of get_connection opens a connection of its own.  SQLite     *)
(* runs one write transaction at a time and shows the other connections    *)
(* none of its writes before the commit, so the statements from the first  *)
(* write of a block to its commit are one step; the SELECTs before the     *)
(* first write read the committed database and are steps of their own.     *)
(***************************************************************************)
Requests == {"r1", "r2"}

IdleSync ==
    [pc |-> "idle", nums |-> << >>, new_emails |-> << >>, k |-> 0,
     client |-> 0, count |-> 0, rejected |-> 0, status |-> 0]

\* the committed database and the counters of request r
Committed(r) ==
    SyncState(clients, nextClientId, inquiries, responses, messages,
              syncs[r].count, syncs[r].rejected, 200)

\* what the steps of a sync request leave alone
beside_sync ==
    <<users, publishers, nextPublisherId, session, now, resp, lastLogin,
      monitoring_thread, stop_event, workers, callers, ai_assistant>>

\* login_required, then fetch_new_emails up to the answer of the search
sync_search(r, imap) ==
    /\ is_authenticated
    /\ syncs[r].pc = "idle"
    /\ syncs' = [syncs EXCEPT ![r] = [IdleSync EXCEPT
                                        !.pc = "fetch",
                                        !.nums = search(inbox, imap)]]
    /\ UNCHANGED <<clients, nextClientId, inquiries, responses, messages,
                   inbox, beside_sync>>

\* fetch_new_emails, the loop over the message numbers of the search
sync_fetch(r, imap) ==
    /\ syncs[r].pc = "fetch"
    /\ LET f == fetch_loop(inbox, syncs[r].nums, 1, imap, << >>, Request(r))
       IN /\ inbox' = f.inbox
          /\ syncs' = [syncs EXCEPT ![r].pc = "loop", ![r].nums = << >>,
                                    ![r].new_emails = f.new_emails, ![r].k = 1]
    /\ UNCHANGED <<clients, nextClientId, inquiries, responses, messages,
                   beside_sync>>

\* the top of the loop: the return after the last message, or the
\* extraction, the gate and the client lookup of the next one
sync_next(r) ==
    /\ syncs[r].pc = "loop"
    /\ IF syncs[r].k > Len(syncs[r].new_emails)
       THEN syncs' = [syncs EXCEPT ![r].pc = "idle", ![r].status = 200,
                                   ![r].new_emails = << >>]
       ELSE LET m == syncs[r].new_emails[syncs[r].k]
                found == FindClient(clients, ExtractName(m.from, m.body),
                                    ExtractCompany(m.body))
            IN IF Rejected(m)
               THEN syncs' = [syncs EXCEPT ![r].rejected = @ + 1, ![r].k = @ + 1]
               ELSE \E client \in IF found = {} THEN {0} ELSE found :
                       syncs' = [syncs EXCEPT ![r].pc = "client",
                                              ![r].client = client]
    /\ UNCHANGED <<clients, nextClientId, inquiries, responses, messages,
                   inbox, beside_sync>>

\* the end of a block of request r that left the database in state s
EndBlock(r, s) ==
    /\ s.nextClientId <= MaxClients + 1
    /\ Len(s.inquiries) <= MaxInquiries
    /\ Len(s.messages) <= MaxMessages
    /\ clients' = s.clients
    /\ nextClientId' = s.nextClientId
    /\ inquiries' = s.inquiries
    /\ responses' = s.responses
    /\ messages' = s.messages
    /\ syncs' = IF s.status = 500
                THEN [syncs EXCEPT ![r].pc = "idle", ![r].status = 500,
                                   ![r].new_emails = << >>]
                ELSE [syncs EXCEPT ![r].pc = "loop", ![r].k = @ + 1,
                                   ![r].client = 0, ![r].count = s.count]

\* a block that begins with the client INSERT or the phone UPDATE, to its
\* commit or, when statement number failed raises a storage error, to its
\* rollback
sync_write_client(r, failed) ==
    /\ syncs[r].pc = "client"
    /\ LET m == syncs[r].new_emails[syncs[r].k]
           client == syncs[r].client
       IN /\ client = 0 \/ ExtractPhone(m.body) # NULL
          /\ \E work \in message_statements(Committed(r), m, now, client) :
                /\ failed <= Len(work)
                /\ EndBlock(r, transaction(Committed(r), work,
                      IF integrity_error(Committed(r), m, client) # 0
                      THEN integrity_error(Committed(r), m, client)
                      ELSE failed))
    /\ UNCHANGED <<inbox, beside_sync>>

\* a block that writes no client: the duplicate test
sync_check(r) ==
    /\ syncs[r].pc = "client"
    /\ LET m == syncs[r].new_emails[syncs[r].k]
           client == syncs[r].client
       IN /\ client # 0
          /\ ExtractPhone(m.body) = NULL
          /\ IF ExistingInquiry(inquiries, client, SubjectOf(m, now), m.body) # {}
             THEN syncs' = [syncs EXCEPT ![r].pc = "loop", ![r].k = @ + 1,
                                         ![r].client = 0]
             ELSE syncs' = [syncs EXCEPT ![r].pc = "insert"]
    /\ UNCHANGED <<clients, nextClientId, inquiries, responses, messages,
                   inbox, beside_sync>>

\* the rest of that block: the inquiry INSERT and the auto-detection, to the
\* commit or the rollback
sync_insert(r, failed) ==
    /\ syncs[r].pc = "insert"
    /\ LET m == syncs[r].new_emails[syncs[r].k]
       IN \E work \in inquiry_statements(Committed(r), m, now, syncs[r].client) :
             /\ failed <= Len(work)
             /\ EndBlock(r, transaction(Committed(r), work, failed))
    /\ UNCHANGED <<inbox, beside_sync>>

(***************************************************************************)
(* The email monitor (email_handler.py).  monitoring_thread is the field   *)
(* _monitoring_thread (0 is None, otherwise the index of a Thread object   *)
(* in workers) and stop_event is the Event _stop_event.  A Thread object   *)
(* is "new" until start(), then runs _monitor_loop ("check": about to test *)
(* the flag; "fetch": in the loop body, fetch_new_emails and the sleep),   *)
(* then is "dead".  callers are the threads that call                      *)
(* start_email_monitoring and stop_email_monitoring; no lock orders their  *)
(* statements, so each statement that reads or writes a shared field is a  *)
(* step of its own.                                                        *)
(***************************************************************************)
\* what a step of the monitor leaves alone: the database, the web session,
\* the AI assistant and the sync requests
web == <<tables, session, now, resp, lastLogin, ai_assistant, syncs>>

\* the threads that call start_email_monitoring and stop_email_monitoring
Callers == {"main", "request"}

IdleCaller == [pc |-> "idle", target |-> 0, alive_at_call |-> {},
               result |-> "none"]

is_alive(w) == workers[w].pc \in {"check", "fetch"}

AliveWorkers == {w \in DOMAIN workers : is_alive(w)}

\* the return of a call: its locals are gone, its outcome is kept
Return(c, result) ==
    [callers EXCEPT ![c] = [IdleCaller EXCEPT !.result = result]]

\* Thread objects created, or about to be created by a call under way
ThreadsClaimed ==
    Len(workers) + Cardinality({c \in DOMAIN callers :
                                  callers[c].pc \in {"start_clear",
                                                     "start_create"}})

\* start_email_monitoring, the test of its first line
start_check(c) ==
    /\ callers[c].pc = "idle"
    /\ ThreadsClaimed < MaxWorkers
    /\ IF monitoring_thread # 0 /\ is_alive(monitoring_thread)
       THEN callers' = Return(c, "already running")
       ELSE callers' = [callers EXCEPT ![c].pc = "start_clear"]
    /\ UNCHANGED <<web, inbox, monitoring_thread, stop_event, workers>>

\* self._stop_event.clear()
start_clear(c) ==
    /\ callers[c].pc = "start_clear"
    /\ stop_event' = FALSE
    /\ callers' = [callers EXCEPT ![c].pc = "start_create"]
    /\ UNCHANGED <<web, inbox, monitoring_thread, workers>>

\* self._monitoring_thread = threading.Thread(target=self._monitor_loop)
start_create(c) ==
    /\ callers[c].pc = "start_create"
    /\ workers' = Append(workers, [pc |-> "new", fetched |-> 0,
                                         new_emails |-> << >>])
    /\ monitoring_thread' = Len(workers) + 1
    /\ callers' = [callers EXCEPT ![c].pc = "start_start"]
    /\ UNCHANGED <<web, inbox, stop_event>>

\* self._monitoring_thread.start(): the field is read again; start() of a
\* thread that was already started raises RuntimeError
start_start(c) ==
    /\ callers[c].pc = "start_start"
    /\ IF workers[monitoring_thread].pc = "new"
       THEN /\ workers' = [workers EXCEPT ![monitoring_thread].pc = "check"]
            /\ callers' = Return(c, "started")
       ELSE /\ callers' = Return(c, "RuntimeError")
            /\ UNCHANGED workers
    /\ UNCHANGED <<web, inbox, monitoring_thread, stop_event>>

\* _monitor_loop: while not self._stop_event.is_set()
worker_check(w) ==
    /\ w \in DOMAIN workers
    /\ workers[w].pc = "check"
    /\ workers' = [workers EXCEPT ![w].pc = IF stop_event THEN "dead"
                                           ELSE "fetch"]
    /\ UNCHANGED <<web, inbox, monitoring_thread, stop_event, callers>>

\* _monitor_loop, the loop body: fetch_new_emails in the IMAP session imap
\* (an exception would be caught and logged), a log line for each returned
\* message, and time.sleep(interval); fetched counts the passes, up to
\* MaxFetches, and new_emails is the list of the latest pass
worker_fetch(w, imap) ==
    /\ w \in DOMAIN workers
    /\ workers[w].pc = "fetch"
    /\ LET f == fetch_new_emails(inbox, imap, Monitor(w))
       IN /\ inbox' = f.inbox
          /\ workers' = [workers EXCEPT
                           ![w].pc = "check",
                           ![w].fetched = IF @ < MaxFetches THEN @ + 1 ELSE @,
                           ![w].new_emails = IF f.raised THEN @
                                             ELSE f.new_emails]
    /\ UNCHANGED <<web, monitoring_thread, stop_event, callers>>

\* stop_email_monitoring, the test of its first line
stop_check(c) ==
    /\ callers[c].pc = "idle"
    /\ IF monitoring_thread # 0 /\ is_alive(monitoring_thread)
       THEN callers' = [callers EXCEPT ![c].pc = "stop_set",
                                       ![c].alive_at_call = AliveWorkers]
       ELSE callers' = Return(c, "nothing to stop")
    /\ UNCHANGED <<web, inbox, monitoring_thread, stop_event, workers>>

\* self._stop_event.set()
stop_set(c) ==
    /\ callers[c].pc = "stop_set"
    /\ stop_event' = TRUE
    /\ callers' = [callers EXCEPT ![c].pc = "stop_join"]
    /\ UNCHANGED <<web, inbox, monitoring_thread, workers>>

\* self._monitoring_thread.join(): the field is read again; join() of a
\* thread that was not started raises RuntimeError
stop_join(c) ==
    /\ callers[c].pc = "stop_join"
    /\ IF workers[monitoring_thread].pc = "new"
       THEN callers' = Return(c, "RuntimeError")
       ELSE callers' = [callers EXCEPT ![c].pc = "stop_wait",
                                       ![c].target = monitoring_thread]
    /\ UNCHANGED <<web, inbox, monitoring_thread, stop_event, workers>>

\* join() returns when the joined thread has ended
stop_wait(c) ==
    /\ callers[c].pc = "stop_wait"
    /\ workers[callers[c].target].pc = "dead"
    /\ callers' = Return(c, "stopped")
    /\ UNCHANGED <<web, inbox, monitoring_thread, stop_event, workers>>

(***************************************************************************)
(* The AI assistant (ai_assistant.py).  The three provider flags and the   *)
(* API key are read from Config when the assistant is constructed.  A      *)
(* construction that raises leaves no assistant: the record then holds the *)
(* exception in raised, which is NULL for an assistant that exists.  A     *)
(* text is a sequence of characters.                                       *)
(***************************************************************************)
Assistant(local, external, bedrock, api_key) ==
    [raised |-> NULL, use_local_ai |-> local,
     use_external_free_ai |-> external, use_bedrock |-> bedrock,
     api_key |-> api_key]

Raised(exception) ==
    [raised |-> exception, use_local_ai |-> FALSE,
     use_external_free_ai |-> FALSE, use_bedrock |-> FALSE, api_key |-> ""]

\* AIAssistant.__init__ and the _init_* method it selects
AIAssistant_any(use_local_ai, use_external_free_ai, use_bedrock, api_key) ==
    LET enabled_count == Bool2Int(use_bedrock) + Bool2Int(use_local_ai)
                           + Bool2Int(use_external_free_ai)
    IN IF enabled_count = 0 THEN Raised("ValueError")
       ELSE IF use_local_ai THEN Assistant(TRUE, FALSE, FALSE, "ollama")
       ELSE IF use_external_free_ai
       THEN IF api_key = "" THEN Raised("ValueError")
            ELSE Assistant(FALSE, TRUE, FALSE, api_key)
       ELSE Raised("NotImplementedError")

AIAssistant(use_local_ai, use_external_free_ai, use_bedrock, api_key) ==
    LET enabled_count == Bool2Int(use_bedrock) + Bool2Int(use_local_ai)
                           + Bool2Int(use_external_free_ai)
    IN IF enabled_count = 0 THEN Raised("ValueError")
       ELSE IF enabled_count > 1 THEN Raised("ValueError")
       ELSE IF use_local_ai THEN Assistant(TRUE, FALSE, FALSE, "ollama")
       ELSE IF use_external_free_ai
       THEN IF api_key = "" THEN Raised("ValueError")
            ELSE Assistant(FALSE, TRUE, FALSE, api_key)
       ELSE Raised("NotImplementedError")

\* ai_assistant = AIAssistant() under a configuration
construct(use_local_ai, use_external_free_ai, use_bedrock, api_key) ==
    /\ ai_assistant' = AIAssistant(use_local_ai, use_external_free_ai,
                                   use_bedrock, api_key)
    /\ resp' = [op |-> "AIAssistant", status |-> 0,
                use_local_ai |-> use_local_ai,
                use_external_free_ai |-> use_external_free_ai,
                use_bedrock |-> use_bedrock, api_key |-> api_key]
    /\ UNCHANGED <<tables, session, now, lastLogin, monitoring_thread,
                   stop_event, workers, callers, inbox, syncs>>

\* AIAssistant.test_connection; reachable: the request to the inference
\* endpoint returns a success status
test_connection(reachable) ==
    /\ ai_assistant.raised = NULL
    /\ resp' = [op |-> "test_connection", status |-> 0,
                result |->
                  IF ai_assistant.use_local_ai
                       \/ ai_assistant.use_external_free_ai
                  THEN IF reachable
                       THEN [success |-> TRUE,
                             provider |-> IF ai_assistant.use_local_ai
                                          THEN "Ollama (Local)"
                                          ELSE "External Free AI"]
                       ELSE [success |-> FALSE,
                             provider |-> IF ai_assistant.use_local_ai
                                          THEN "Ollama"
                                          ELSE "External AI"]
                  ELSE [success |-> FALSE, provider |-> "bedrock"]]
    /\ UNCHANGED <<tables, session, now, lastLogin, services>>

\* text[:max_length] for max_length >= 0
Slice(text, max_length) ==
    SubSeq(text, 1, IF max_length < Len(text) THEN max_length ELSE Len(text))

Ellipsis == <<".", ".", ".">>

\* the summary the inference endpoint answers with, stripped
Content == <<"s">>

\* AIAssistant._summarize_openai_compatible: the endpoint's content, or the
\* truncation of the except branch
summarize_openai_compatible_at_length(text, max_length, reachable) ==
    IF reachable THEN Content
    ELSE IF Len(text) >= max_length THEN Slice(text, max_length) \o Ellipsis
    ELSE text

summarize_openai_compatible(text, max_length, reachable) ==
    IF reachable THEN Content
    ELSE IF Len(text) > max_length THEN Slice(text, max_length) \o Ellipsis
    ELSE text

\* AIAssistant.generate_summary
generate_summary(text, max_length, reachable) ==
    /\ ai_assistant.raised = NULL
    /\ resp' = [op |-> "generate_summary", status |-> 0, text |-> text,
                max_length |-> max_length, reachable |-> reachable,
                raised |-> IF ai_assistant.use_local_ai
                                \/ ai_assistant.use_external_free_ai
                           THEN NULL ELSE "NotImplementedError",
                result |-> IF ai_assistant.use_local_ai
                                \/ ai_assistant.use_external_free_ai
                           THEN summarize_openai_compatible(text, max_length,
                                                            reachable)
                           ELSE << >>]
    /\ UNCHANGED <<tables, session, now, lastLogin, services>>

(***************************************************************************)
(* The system.                                                             *)
(***************************************************************************)
Init ==
    /\ users = UserRows
    /\ clients = << >>
    /\ nextClientId = 1
    /\ inquiries = << >>
    /\ responses = << >>
    /\ messages = << >>
    /\ session = EmptySession
    /\ now = 0
    /\ resp = [op |-> "init", status |-> 0]
    /\ lastLogin = [username |-> NULL, time |-> NULLINT]
    /\ publishers = << >>
    /\ nextPublisherId = 1
    /\ monitoring_thread = 0
    /\ stop_event = FALSE
    /\ workers = << >>
    /\ callers = [c \in Callers |-> IdleCaller]
    /\ ai_assistant = AIAssistant(TRUE, FALSE, FALSE, "")
    /\ inbox = << >>
    /\ syncs = [r \in Requests |-> IdleSync]

GuardedOps == {"logout", "create_client", "delete_client", "create_inquiry",
               "create_response", "mark_client_replied", "update_follow_up",
               "add_message", "sync_emails", "bulk_upload_publishers"}

\* the requests the environment sends
LoginEmails == {"alice@x.com", "bob@x.com", "carol@x.com", "nobody@x.com", ""}
LoginPasswords == {"Secret123", "hunter2", ""}
Tokens == {"tok1"}
ClientNames == {"Ana Diaz"}
NewClientEmails == {Ana, SyntheticEmail("Ana Diaz", NULL)}
Subjects == {"Quote"}
InquiryTexts == {Text("call")}
ResponseTexts == {EmptyText, Text("offer")}
ThreadTexts == {EmptyText, Text("thanks")}
Senders == {"agent", "client", "bot"}
FollowUpRequests ==
    { [follow_up_method |-> "other_channel", deal_status |-> NULL,
       client_replied |-> 1],
      [follow_up_method |-> NULL, deal_status |-> "closed_won",
       client_replied |-> NULLINT] }

\* the instants at which requests are observed
Instants == 0..MaxClock
AuthInstants ==
    {p * SESSION_TIMEOUT + d : p \in 0..MaxPeriods, d \in 0..MaxClock}

AliceLogin == \E k \in Tokens : login("alice@x.com", "Secret123", k)

(***************************************************************************)
(* Specifications.  Each composes the handlers that read or write the      *)
(* state its properties are about; the handlers are the same definitions   *)
(* in all of them.                                                         *)
(***************************************************************************)
\* Inquiries, responses and conversation threads
Next ==
    \/ AliceLogin
    \/ \E op \in GuardedOps : login_required_reject(op)
    \/ \E s \in Subjects, m \in InquiryTexts : create_inquiry(1, s, m)
    \/ \E i \in 0..MaxInquiries, x \in ResponseTexts : create_response(i, x)
    \/ \E q \in FollowUpRequests :
          update_follow_up(1, q.follow_up_method, q.deal_status,
                           q.client_replied)
    \/ \E s \in Senders, m \in ThreadTexts :
          add_message_to_conversation(1, s, m)
    \/ \E m \in {MailA} : sync_emails(<<m>>)

Spec == Init /\ [][Next]_vars

\* The session manager, observed over several timeout periods
NextAuth ==
    \/ \E e \in LoginEmails, p \in LoginPasswords, k \in Tokens : login(e, p, k)
    \/ check_auth
    \/ logout
    \/ \E op \in GuardedOps : login_required_reject(op)
    \/ \E t \in AuthInstants : Tick(t)

SpecAuth == Init /\ [][NextAuth]_vars

\* Email sync: the gate, client resolution and duplicate suppression
NextIngest ==
    \/ AliceLogin
    \/ \E b \in BatchesOf(MailPool) : sync_emails(b)

SpecIngest == Init /\ [][NextIngest]_vars

\* Email sync: detection of a client's reply
NextReply ==
    \/ AliceLogin
    \/ \E t \in Instants : Tick(t)
    \/ create_response(1, Text("offer"))
    \/ \E r \in 1..MaxResponses : mark_client_replied(r, 1)
    \/ \E m \in {MailA, MailB, MailG} : sync_emails(<<m>>)

SpecReply == Init /\ [][NextReply]_vars

\* Clients and their inquiries
NextClients ==
    \/ AliceLogin
    \/ \E k \in Tokens : login("bob@x.com", "hunter2", k)
    \/ \E n \in ClientNames, e \in NewClientEmails : create_client(n, e)
    \/ \E c \in 1..MaxClients, s \in Subjects, m \in InquiryTexts :
          create_inquiry(c, s, m)
    \/ \E m \in {MailA, MailC} : sync_emails(<<m>>)
    \/ \E c \in 1..MaxClients : delete_client(c)

SpecClients == Init /\ [][NextClients]_vars

\* The route guard in front of the handlers that write rows
GuardInstants == {p * (SESSION_TIMEOUT + 1) : p \in 0..MaxPeriods}
GuardLists == {<<PubA>>, <<PubA, PubB>>}

NextGuard ==
    \/ AliceLogin
    \/ logout
    \/ \E t \in GuardInstants : Tick(t)
    \/ \E op \in GuardedOps : login_required_reject(op)
    \/ \E n \in ClientNames : create_client(n, Ana)
    \/ \E s \in Subjects, m \in InquiryTexts : create_inquiry(1, s, m)
    \/ create_response(1, Text("offer"))
    \/ \E l \in GuardLists : bulk_upload_publishers(l)
    \/ delete_client(1)

SpecGuard == Init /\ [][NextGuard]_vars

\* The email monitor: threads that start and stop it, and its workers
NextMonitor ==
    \/ \E c \in Callers : start_check(c)
    \/ \E c \in Callers : start_clear(c)
    \/ \E c \in Callers : start_create(c)
    \/ \E c \in Callers : start_start(c)
    \/ \E c \in Callers : stop_check(c)
    \/ \E c \in Callers : stop_set(c)
    \/ \E c \in Callers : stop_join(c)
    \/ \E c \in Callers : stop_wait(c)
    \/ \E w \in 1..MaxWorkers : worker_check(w)
    \/ \E w \in 1..MaxWorkers : worker_fetch(w, ImapOK)

SpecMonitor == Init /\ [][NextMonitor]_vars

\* Publishers: bulk import and the paginated listings.  A long list is a
\* short one repeated until it fills more than one batch.
Cycle(pattern, n) == [k \in 1..n |-> pattern[((k - 1) % Len(pattern)) + 1]]

PublisherPool == {PubA, PubA2, PubB, PubC, PubN}
PublisherLists ==
    UNION {[1..n -> PublisherPool] : n \in 0..MaxList}
      \cup {Cycle(<<PubA, PubB>>, BATCH_SIZE + 1),
            Cycle(<<PubA2, PubN>>, BATCH_SIZE + 1)}

NextPublishers ==
    \/ AliceLogin
    \/ \E l \in PublisherLists : bulk_upload_publishers(l)

SpecPublishers == Init /\ [][NextPublishers]_vars

\* The paginated listings of publishers and clients
Wheres == {NoWhere, [column |-> "status", value |-> "active"]}
Searches == {"", "acme", "pub.com", "x.com"}
ListingLists == {<<PubB>>, <<PubA, PubC>>}

NextListing ==
    \/ AliceLogin
    \/ \E l \in ListingLists : bulk_upload_publishers(l)
    \/ \E n \in ClientNames, e \in NewClientEmails : create_client(n, e)
    \/ \E p \in 1..MaxPage, n \in 1..MaxPerPage, w \in Wheres :
          paginate_publishers(p, n, w)
    \/ \E p \in 1..MaxPage, n \in 1..MaxPerPage, q \in Searches :
          get_publishers(p, n, q)
    \/ \E p \in 1..MaxPage, n \in 1..MaxPerPage, q \in Searches :
          get_clients(p, n, q)

SpecListing == Init /\ [][NextListing]_vars

\* Every route that writes rows, and the email sync
NextRows ==
    \/ AliceLogin
    \/ \E n \in ClientNames : create_client(n, Ana)
    \/ update_client(1, "Ana Diaz", Ana, "555-0100", NULL)
    \/ delete_client(1)
    \/ \E s \in Subjects, m \in InquiryTexts : create_inquiry(1, s, m)
    \/ create_response(1, Text("offer"))
    \/ mark_client_replied(1, 1)
    \/ update_follow_up(1, "other_channel", NULL, 1)
    \/ add_message_to_conversation(1, "client", Text("thanks"))
    \/ migrate_existing_conversations
    \/ \E l \in {<<PubA>>, <<PubA2, PubB>>} : bulk_upload_publishers(l)
    \/ \E m \in {MailA} : sync_emails(<<m>>)

SpecRows == Init /\ [][NextRows]_vars

\* The transaction of create_response, with and without a storage error
NextTxn ==
    \/ AliceLogin
    \/ \E t \in Instants : Tick(t)
    \/ \E s \in Subjects, m \in InquiryTexts : create_inquiry(1, s, m)
    \/ \E i \in 0..MaxInquiries, x \in ResponseTexts : create_response(i, x)
    \/ \E i \in 1..MaxInquiries, failed \in 1..3 :
          create_response_fails(i, Text("offer"), failed)

SpecTxn == Init /\ [][NextTxn]_vars

\* The AI assistant under every configuration of the provider flags
ApiKeys == {"", "gsk-key"}
Chars == {"a", "b"}
Texts == UNION {[1..n -> Chars] : n \in 0..MaxText}

NextAI ==
    \/ \E local, external, bedrock \in BOOLEAN, key \in ApiKeys :
          construct(local, external, bedrock, key)
    \/ \E reachable \in BOOLEAN : test_connection(reachable)
    \/ \E text \in Texts, max_length \in 0..MaxText, reachable \in BOOLEAN :
          generate_summary(text, max_length, reachable)

SpecAI == Init /\ [][NextAI]_vars

\* Conversation threads: every path that stores a message
ThreadIds == {1, 2}

NextThreads ==
    \/ AliceLogin
    \/ \E s \in Subjects, m \in InquiryTexts : create_inquiry(1, s, m)
    \/ create_response(1, Text("offer"))
    \/ \E r \in ThreadIds, s \in Senders, m \in ThreadTexts :
          add_message_to_conversation(r, s, m)
    \/ sync_emails(<<MailA>>)
    \/ migrate_existing_conversations

SpecThreads == Init /\ [][NextThreads]_vars

\* The follow-up columns of a response under requests that carry values in
\* and out of their documented domains
RepliedValues == {0, 1, 2}
FollowUpMethods == {NULL, "email", "other_channel", "fax"}
DealStatuses == {NULL, "open", "closed_won", "closed_lost", "maybe"}

NextFollowUp ==
    \/ AliceLogin
    \/ \E s \in Subjects, m \in InquiryTexts : create_inquiry(1, s, m)
    \/ create_response(1, Text("offer"))
    \/ \E v \in RepliedValues : mark_client_replied(1, v)
    \/ \E f \in FollowUpMethods, d \in DealStatuses,
          v \in RepliedValues \cup {NULLINT} : update_follow_up(1, f, d, v)
    \/ add_message_to_conversation(1, "client", Text("thanks"))
    \/ sync_emails(<<MailA>>)

SpecFollowUp == Init /\ [][NextFollowUp]_vars

\* Company extraction: mails from a named sender, with and without a phone
\* number, in which no, one or two company patterns match
MatchLists ==
    {<< >>, <<"IBM ">>, <<"me", "IBM ">>, <<"IBM ", "Acme">>,
     <<"Acme", "Initech  Inc">>, <<"Initech  Inc">>}

CompanyMail(matches, phone) ==
    Mail(Ana, "Quote", [Body("Ana Diaz", NULL, phone) EXCEPT !.company = matches])

NextCompany ==
    \/ AliceLogin
    \/ \E ms \in MatchLists, p \in {NULL, "555123"} :
          sync_emails(<<CompanyMail(ms, p)>>)

SpecCompany == Init /\ [][NextCompany]_vars

\* Email sync requests side by side: a client known by name and company
\* and mail that names it
MailH == Mail(Ana, "Quote", Body("Ana Diaz", "Acme", NULL))
MailI == Mail(Ana, "Order", Body("Ana Diaz", "Acme", NULL))

Incoming(m) == Rfc822(m.from.local, m.from, m.subject, m.body)

NextRace ==
    \/ AliceLogin
    \/ create_client("Ana Diaz", Ana)
    \/ update_client(1, "Ana Diaz", Ana, NULL, "Acme")
    \/ deliver(Incoming(MailH))
    \/ \E r \in Requests : sync_search(r, ImapOK)
    \/ \E r \in Requests : sync_fetch(r, ImapOK)
    \/ \E r \in Requests : sync_next(r)
    \/ \E r \in Requests : sync_write_client(r, 0)
    \/ \E r \in Requests : sync_check(r)
    \/ \E r \in Requests : sync_insert(r, 0)

SpecRace == Init /\ [][NextRace]_vars

\* One email sync request at a time, with a storage error at any statement
\* of any block
Failures == 0..4

NextBlocks ==
    \/ AliceLogin
    \/ create_response(1, Text("offer"))
    \/ \E m \in {MailH, MailI} : deliver(Incoming(m))
    \/ sync_search("r1", ImapOK)
    \/ sync_fetch("r1", ImapOK)
    \/ sync_next("r1")
    \/ \E failed \in Failures : sync_write_client("r1", failed)
    \/ sync_check("r1")
    \/ \E failed \in Failures : sync_insert("r1", failed)

SpecBlocks == Init /\ [][NextBlocks]_vars

\* The monitor thread fetching from an inbox into which mail arrives, in
\* every IMAP session
NextFetch ==
    \/ start_check("main")
    \/ start_clear("main")
    \/ start_create("main")
    \/ start_start("main")
    \/ \E m \in {MailH, MailE} : deliver(Incoming(m))
    \/ \E w \in 1..MaxWorkers : worker_check(w)
    \/ \E w \in 1..MaxWorkers, imap \in ImapSessions : worker_fetch(w, imap)

SpecFetch == Init /\ [][NextFetch]_vars

\* The monitor started at process launch beside email-sync requests, on an
\* inbox into which qualifying mail arrives
NextMailbox ==
    \/ start_check("main")
    \/ start_clear("main")
    \/ start_create("main")
    \/ start_start("main")
    \/ \E w \in 1..MaxWorkers : worker_check(w)
    \/ \E w \in 1..MaxWorkers : worker_fetch(w, ImapOK)
    \/ AliceLogin
    \/ \E m \in {MailH, MailI} : deliver(Incoming(m))
    \/ sync_search("r1", ImapOK)
    \/ sync_fetch("r1", ImapOK)
    \/ sync_next("r1")
    \/ sync_write_client("r1", 0)
    \/ sync_check("r1")
    \/ sync_insert("r1", 0)

SpecMailbox == Init /\ [][NextMailbox]_vars

(***************************************************************************)
(* Properties.                                                             *)
(***************************************************************************)
\* C11: a guarded operation invoked while is_authenticated() is false (no
\* session, expired session, logged out) returns 401 and changes no client,
\* inquiry, response, conversation-message or publisher row; when
\* authenticated the wrapped operation runs and its own result is returned
\* (client delete: the status and table of its body; bulk import: the count
\* and table of bulk_insert_publishers).
C11_RouteGuard ==
    [][LET user == get_current_user(session, now).user
       IN /\ user = NoUser
               => /\ tables' = tables
                  /\ resp'.op \in GuardedOps => resp'.status = 401
          /\ (user # NoUser /\ resp'.op \in GuardedOps)
               => /\ resp'.status # 401
                  /\ delete_client(1)
                       => /\ resp'.status = delete_client_body(user, 1).status
                          /\ clients' = delete_client_body(user, 1).clients
                  /\ \A l \in GuardLists :
                       bulk_upload_publishers(l)
                       => /\ resp'.imported
                              = bulk_insert_publishers(publishers,
                                  nextPublisherId, l).total_inserted
                          /\ publishers'
                              = bulk_insert_publishers(publishers,
                                  nextPublisherId, l).publishers]_vars

\* a guarded request is turned away after the session expired, with client,
\* inquiry and publisher rows in the tables
C11_Witness ==
    /\ resp.op \in GuardedOps
    /\ resp.status = 401
    /\ lastLogin.time # NULLINT
    /\ now - lastLogin.time > SESSION_TIMEOUT
    /\ DOMAIN clients # {}
    /\ DOMAIN inquiries # {}
    /\ DOMAIN publishers # {}

\* C12: at any time at most one email-monitoring worker is alive, under
\* every interleaving of start_email_monitoring and stop_email_monitoring
\* calls, two concurrent start calls included.
C12_AtMostOneWorker == Cardinality(AliveWorkers) <= 1

\* C13: a stop_email_monitoring call made while a worker is alive returns
\* only after the worker has terminated: when the call returns from its
\* join, every worker that was alive when the call was made has ended.
C13_StopReturnsAfterWorkers ==
    [][\A c \in Callers :
          (callers[c].pc = "stop_wait" /\ callers'[c].pc = "idle")
          => \A w \in callers[c].alive_at_call : workers'[w].pc = "dead"]_vars

\* the records of a list that INSERT OR IGNORE can store
ValidEmails(l) ==
    {PublisherParams(l[k]).email :
       k \in {j \in 1..Len(l) : /\ PublisherParams(l[j]).name # NULL
                                /\ PublisherParams(l[j]).email # NULL}}

RowsWithEmail(pubs, email) == {i \in DOMAIN pubs : pubs[i].email = email}

\* C14: bulk publisher import is idempotent.  After any sequence of bulk
\* imports no two publishers share an email; each import reports the number
\* of rows it added (duplicates inside the list or across its batches of
\* BATCH_SIZE do not count) and keeps the rows that were there; it leaves
\* exactly one row per distinct email of the list; and importing the same
\* list again reports 0 and changes no row.
C14_BulkImportIdempotent ==
    /\ [](\A i, j \in DOMAIN publishers :
            publishers[i].email = publishers[j].email => i = j)
    /\ [][(resp'.op = "bulk_upload_publishers" /\ resp'.request # << >>
              /\ bulk_upload_publishers(resp'.request))
            => LET l == resp'.request
                   again == bulk_insert_publishers(publishers',
                                                   nextPublisherId', l)
               IN /\ resp'.status = 200
                  /\ resp'.imported
                       = Cardinality(DOMAIN publishers' \ DOMAIN publishers)
                  /\ \A i \in DOMAIN publishers :
                       i \in DOMAIN publishers' /\ publishers'[i] = publishers[i]
                  /\ \A e \in ValidEmails(l) :
                       Cardinality(RowsWithEmail(publishers', e)) = 1
                  /\ again.total_inserted = 0
                  /\ again.publishers = publishers']_vars

\* a list longer than one batch was imported a second time: nothing added
C14_Witness ==
    /\ resp.op = "bulk_upload_publishers"
    /\ resp.status = 200
    /\ resp.total > BATCH_SIZE
    /\ resp.imported = 0
    /\ Cardinality(DOMAIN publishers) = 2

\* the rows of pages 1..pages of a listing, one page after the other
RECURSIVE PagesConcat(_, _, _, _)
PagesConcat(rows, per_page, where, p) ==
    IF p = 0 THEN << >>
    ELSE PagesConcat(rows, per_page, where, p - 1)
           \o get_paginated(rows, p, per_page, where).data

\* C15: get_paginated with per_page >= 1 reports total = the number of rows
\* matching the where clause and pages = ceil(total / per_page), and pages
\* 1..pages taken together contain every matching row exactly once.
C15_Pagination ==
    /\ \A per_page \in 1..MaxPerPage, where \in Wheres :
          LET first == get_paginated(publishers, 1, per_page, where)
              all == PagesConcat(publishers, per_page, where, first.pages)
          IN /\ first.total = Cardinality(Matching(publishers, where))
             /\ first.pages * per_page >= first.total
             /\ (first.pages = 0 \/ (first.pages - 1) * per_page < first.total)
             /\ Len(all) = first.total
             /\ {all[k] : k \in 1..Len(all)} = Matching(publishers, where)
    /\ resp.op = "get_paginated"
         => /\ resp.result.total = Cardinality(Matching(publishers, resp.where))
            /\ resp.result.pages * resp.result.per_page >= resp.result.total
            /\ \/ resp.result.pages = 0
               \/ (resp.result.pages - 1) * resp.result.per_page
                    < resp.result.total
            /\ resp.result.page <= resp.result.pages
                 => resp.result.data
                      = SubSeq(PagesConcat(publishers, resp.result.per_page,
                                           resp.where, resp.result.pages),
                               (resp.result.page - 1) * resp.result.per_page + 1,
                               IF resp.result.page < resp.result.pages
                               THEN resp.result.page * resp.result.per_page
                               ELSE resp.result.total)

\* the last page of a listing of three rows, two to a page: one row
C15_Witness ==
    /\ resp.op = "get_paginated"
    /\ resp.result.total = 3
    /\ resp.result.per_page = 2
    /\ resp.result.pages = 2
    /\ resp.result.page = 2
    /\ Len(resp.result.data) = 1

\* C16: GET /api/clients and GET /api/publishers called with a search term
\* report the total and pages of the rows that match the search: total is
\* the number of matching rows and pages = ceil(total / per_page).
C16_SearchTotals ==
    (resp.op \in {"get_clients", "get_publishers"} /\ resp.search # "")
    => LET matching ==
             IF resp.op = "get_clients"
             THEN {i \in DOMAIN clients :
                     \/ like(clients[i].full_name, resp.search)
                     \/ like_addr(clients[i].email, resp.search)}
             ELSE {i \in DOMAIN publishers :
                     \/ like(publishers[i].name, resp.search)
                     \/ like(publishers[i].email, resp.search)}
       IN /\ resp.total = Cardinality(matching)
          /\ resp.pages * resp.per_page >= resp.total
          /\ (resp.pages = 0 \/ (resp.pages - 1) * resp.per_page < resp.total)

ProviderNames(assistant) ==
    IF assistant.use_local_ai THEN {"Ollama (Local)", "Ollama"}
    ELSE IF assistant.use_external_free_ai
    THEN {"External Free AI", "External AI"}
    ELSE {"bedrock", "Bedrock"}

\* C17 as stated: construction fails with a configuration error when zero
\* or more than one flag is enabled and succeeds when exactly one is enabled
\* (the external provider with its API key).
C17_Original ==
    resp.op = "AIAssistant"
    => LET enabled == Bool2Int(resp.use_local_ai)
                        + Bool2Int(resp.use_external_free_ai)
                        + Bool2Int(resp.use_bedrock)
       IN /\ enabled # 1 => ai_assistant.raised = "ValueError"
          /\ (enabled = 1 /\ (resp.use_external_free_ai => resp.api_key # ""))
               => ai_assistant.raised = NULL

\* C17: for every combination of the three provider flags, construction
\* fails with a configuration error when zero or more than one flag is
\* enabled; it succeeds when exactly one of the local and external flags is
\* enabled (the external provider with its API key, and fails with a
\* configuration error without it), after which test_connection() reports
\* that provider's name; with the managed flag alone construction fails as
\* not implemented.
C17_ProviderExclusivity ==
    /\ resp.op = "AIAssistant"
         => LET enabled == Bool2Int(resp.use_local_ai)
                             + Bool2Int(resp.use_external_free_ai)
                             + Bool2Int(resp.use_bedrock)
            IN /\ enabled # 1 => ai_assistant.raised = "ValueError"
               /\ (enabled = 1 /\ resp.use_local_ai)
                    => /\ ai_assistant.raised = NULL
                       /\ ai_assistant.use_local_ai
                       /\ ~ai_assistant.use_external_free_ai
               /\ (enabled = 1 /\ resp.use_external_free_ai)
                    => IF resp.api_key = ""
                       THEN ai_assistant.raised = "ValueError"
                       ELSE /\ ai_assistant.raised = NULL
                            /\ ai_assistant.use_external_free_ai
                            /\ ~ai_assistant.use_local_ai
               /\ (enabled = 1 /\ resp.use_bedrock)
                    => ai_assistant.raised = "NotImplementedError"
    /\ resp.op = "test_connection"
         => /\ ai_assistant.raised = NULL
            /\ ai_assistant.use_local_ai # ai_assistant.use_external_free_ai
            /\ resp.result.provider \in ProviderNames(ai_assistant)

\* the external provider, constructed with its key, names itself
C17_Witness ==
    /\ resp.op = "test_connection"
    /\ ai_assistant.use_external_free_ai
    /\ resp.result.success
    /\ resp.result.provider = "External Free AI"

\* C18: when the inference request fails, generate_summary(text,
\* max_length) returns the first max_length characters of text followed by
\* '...' if len(text) > max_length, and text unchanged otherwise; it does not
\* raise.
C18_SummaryFallback ==
    (resp.op = "generate_summary" /\ ~resp.reachable)
    => /\ resp.raised = NULL
       /\ Len(resp.text) > resp.max_length
            => /\ Len(resp.result) = resp.max_length + 3
               /\ \A k \in 1..resp.max_length : resp.result[k] = resp.text[k]
               /\ \A k \in 1..3 : resp.result[resp.max_length + k] = "."
       /\ Len(resp.text) <= resp.max_length => resp.result = resp.text

\* a text longer than max_length was cut and given the ellipsis
C18_Witness ==
    /\ resp.op = "generate_summary"
    /\ ~resp.reachable
    /\ Len(resp.text) = 3
    /\ resp.max_length = 1
    /\ resp.result = <<resp.text[1], ".", ".", ".">>

\* the conversation thread of a response
Thread(msgs, response_id) ==
    SelectSeq(msgs, LAMBDA m : m.response_id = response_id)

ResponsesTo(rs, inquiry_id) ==
    {r \in DOMAIN rs : rs[r].inquiry_id = inquiry_id}

\* C20: no API operation and no email sync removes an inquiry, a response,
\* a conversation message, a publisher or a user: over every step those row
\* sets only grow, and a client row disappears only in a client delete
\* answered 200, which removes that one client; the body of the client
\* delete, for every role, removes no other row.
C20_NothingRemoved ==
    /\ [](\A c \in 1..MaxClients, role \in {"admin", "manager", "staff"} :
            DOMAIN clients
              \ DOMAIN delete_client_body([id |-> 1, role |-> role], c).clients
              \subseteq {c})
    /\ [][/\ users \subseteq users'
          /\ DOMAIN inquiries \subseteq DOMAIN inquiries'
          /\ DOMAIN responses \subseteq DOMAIN responses'
          /\ DOMAIN messages \subseteq DOMAIN messages'
          /\ \A k \in DOMAIN messages : messages'[k] = messages[k]
          /\ DOMAIN publishers \subseteq DOMAIN publishers'
          /\ DOMAIN clients \subseteq DOMAIN clients'
               \/ (/\ resp'.op = "delete_client"
                   /\ resp'.status = 200
                   /\ DOMAIN clients \ DOMAIN clients'
                        = {resp'.client_id})]_vars

\* a client delete was answered with rows in every table
C20_Witness ==
    /\ resp.op = "delete_client"
    /\ DOMAIN clients # {}
    /\ DOMAIN inquiries # {}
    /\ DOMAIN responses # {}
    /\ DOMAIN messages # {}
    /\ DOMAIN publishers # {}

\* C19: the block of create_response is all-or-nothing.  A create_response
\* request either stores the response, its initial thread message and the
\* inquiry update together, or (400, or 500 after a storage error) changes
\* none of the three tables; and no state shows a response without its
\* initial thread message or without its inquiry marked responded.
C19_AllOrNothing ==
    /\ [](\A r \in DOMAIN responses :
            /\ Thread(messages, r) # << >>
            /\ Thread(messages, r)[1].sender = "agent"
            /\ Thread(messages, r)[1].message = responses[r].response_text
            /\ responses[r].inquiry_id \in DOMAIN inquiries
            /\ inquiries[responses[r].inquiry_id].status = "responded")
    /\ [][resp'.op = "create_response"
            => \/ /\ resp'.status = 201
                  /\ Len(responses') = Len(responses) + 1
                  /\ Len(messages') = Len(messages) + 1
               \/ /\ resp'.status \in {400, 500}
                  /\ UNCHANGED <<inquiries, responses, messages>>]_vars

\* C1: create_response with a non-empty text for an existing inquiry whose
\* status is pending returns 201, stores the response, sets that inquiry to
\* responded with a non-null responded_at, and leaves the thread of the new
\* response with exactly one message, sent by 'agent', whose text is the
\* response text.
C1_CreateResponseOnPending ==
    [][\A i \in 1..MaxInquiries, x \in ResponseTexts \ {EmptyText} :
          (/\ create_response(i, x)
           /\ i \in DOMAIN inquiries
           /\ inquiries[i].status = "pending")
          => (/\ resp'.status = 201
              /\ DOMAIN responses' = DOMAIN responses \cup {resp'.response_id}
              /\ resp'.response_id \notin DOMAIN responses
              /\ responses'[resp'.response_id].inquiry_id = i
              /\ responses'[resp'.response_id].response_text = x
              /\ inquiries'[i].status = "responded"
              /\ inquiries'[i].responded_at # NULLINT
              /\ Thread(messages', resp'.response_id)
                   = << [response_id |-> resp'.response_id,
                         sender |-> "agent", message |-> x] >>)]_vars

\* C1 witness: a response was just created for an inquiry that had none
C1_Witness ==
    /\ resp.op = "create_response"
    /\ resp.status = 201
    /\ responses[resp.response_id].inquiry_id \in DOMAIN inquiries
    /\ inquiries[responses[resp.response_id].inquiry_id].status = "responded"
    /\ ResponsesTo(responses, responses[resp.response_id].inquiry_id)
         = {resp.response_id}

\* C2: an inquiry's status is pending or responded, and it is responded
\* exactly when a response for that inquiry has been created (so it starts
\* as pending and never returns to pending).
C2_StatusLifecycle ==
    \A i \in DOMAIN inquiries :
       /\ inquiries[i].status \in {"pending", "responded"}
       /\ inquiries[i].status = "responded"
            <=> ResponsesTo(responses, i) # {}

\* the client rows carrying the (full name, company) pair a message extracts
ClientsOfPair(cl, m) ==
    {i \in DOMAIN cl :
        /\ cl[i].full_name = ExtractName(m.from, m.body)
        /\ cl[i].company = ExtractCompany(m.body)}

\* the inquiries with the subject and body a message carries at time t
SameContent(inqs, m, t) ==
    {i \in DOMAIN inqs : /\ inqs[i].subject = SubjectOf(m, t)
                         /\ inqs[i].message = m.body}

\* C3: a synced message with fewer than 3 of the four flags is rejected
\* (rejected grows by one) and leaves the clients and inquiries tables as
\* they were; a message with at least 3 flags whose subject and body are
\* not yet stored as an inquiry produces exactly one new inquiry and at
\* most one new client.
C3_FieldGate ==
    [][\A m \in MailPool :
          sync_emails(<<m>>)
          => IF valid_fields_count(m) < 3
             THEN /\ resp'.status = 200
                  /\ resp'.rejected = 1
                  /\ clients' = clients
                  /\ inquiries' = inquiries
             ELSE SameContent(inquiries, m, now) = {}
                  => /\ Len(inquiries') = Len(inquiries) + 1
                     /\ Cardinality(DOMAIN clients')
                          <= Cardinality(DOMAIN clients) + 1]_vars

\* C4: when an accepted message resolves to a client that already has an
\* inquiry with the message's subject and body, the sync call completes
\* with status 200, adds 0 to the count and inserts nothing; and a call
\* that carries the same accepted message twice and resolves it to one
\* client completes with status 200, counts it at most once and leaves
\* exactly one inquiry of that client with that subject and body.
C4_Deduplication ==
    [][\A m \in MailPool :
          /\ (/\ sync_emails(<<m>>)
              /\ ~(valid_fields_count(m) < MIN_REQUIRED_FIELDS)
              /\ \E c \in FindClient(clients, ExtractName(m.from, m.body),
                                     ExtractCompany(m.body)) :
                    \E i \in SameContent(inquiries, m, now) :
                       inquiries[i].client_id = c)
             => /\ resp'.status = 200
                /\ resp'.count = 0
                /\ inquiries' = inquiries
                /\ responses' = responses
                /\ messages' = messages
          /\ (/\ sync_emails(<<m, m>>)
              /\ ~(valid_fields_count(m) < MIN_REQUIRED_FIELDS)
              /\ FindClient(clients', ExtractName(m.from, m.body),
                            ExtractCompany(m.body)) # {})
             => /\ resp'.status = 200
                /\ resp'.count <= 1
                /\ Len(inquiries') = Len(inquiries) + resp'.count
                /\ \A c \in FindClient(clients', ExtractName(m.from, m.body),
                                       ExtractCompany(m.body)) :
                      Cardinality({i \in SameContent(inquiries', m, now) :
                                      inquiries'[i].client_id = c}) = 1]_vars

\* C4 witness: a sync call of accepted messages only that stored one inquiry
\* less than the messages it processed
C4_Witness ==
    /\ resp.op = "sync_emails"
    /\ resp.status = 200
    /\ resp.rejected = 0
    /\ resp.total_processed > resp.count
    /\ Len(inquiries) >= 1

\* C5: when a sync call inserts a new inquiry for client c and c has
\* responses with client_replied = 0, exactly one of them, a most recent
\* one, gets client_replied = 1 and follow_up_method = 'email', and one
\* 'client' message with the inbound body is appended to its thread, every
\* other response and message unchanged; when no inquiry is inserted or no
\* such response exists, responses and messages are unchanged.
C5_AutoDetectedReply ==
    [][\A m \in MailPool :
          (sync_emails(<<m>>) /\ resp'.status = 200)
          => LET inserted == Len(inquiries') = Len(inquiries) + 1
                 c == inquiries'[Len(inquiries')].client_id
                 cand == {r \in DOMAIN responses :
                            /\ responses[r].client_replied = 0
                            /\ responses[r].inquiry_id \in DOMAIN inquiries'
                            /\ inquiries'[responses[r].inquiry_id].client_id = c}
             IN IF inserted /\ cand # {}
                THEN \E r \in cand :
                        /\ \A q \in cand :
                              responses[q].sent_at <= responses[r].sent_at
                        /\ responses' = [responses EXCEPT
                                           ![r].client_replied = 1,
                                           ![r].follow_up_method = "email"]
                        /\ messages' = Append(messages,
                                              [response_id |-> r,
                                               sender |-> "client",
                                               message |-> m.body])
                ELSE /\ responses' = responses
                     /\ messages' = messages]_vars

\* C5 witness: a sync call marked the newer of two responses to one client
\* while the older one is still unreplied
C5_Witness ==
    /\ resp.op = "sync_emails"
    /\ resp.count = 1
    /\ \E r1, r2 \in DOMAIN responses :
          /\ responses[r1].sent_at < responses[r2].sent_at
          /\ responses[r1].client_replied = 0
          /\ responses[r2].client_replied = 1
          /\ responses[r2].follow_up_method = "email"
          /\ responses[r1].inquiry_id \in DOMAIN inquiries
          /\ responses[r2].inquiry_id \in DOMAIN inquiries
          /\ inquiries[responses[r1].inquiry_id].client_id
               = inquiries[responses[r2].inquiry_id].client_id
          /\ messages[Len(messages)].response_id = r2
          /\ messages[Len(messages)].sender = "client"

\* C6: an accepted message whose (full name, company) pair, a missing
\* company included, is the pair of a stored client resolves to that client:
\* the call completes with status 200, no client is added, and of the
\* stored clients at most the phone of that one changes.
C6_ClientIdentity ==
    [][\A m \in MailPool :
          (/\ sync_emails(<<m>>)
           /\ ~(valid_fields_count(m) < MIN_REQUIRED_FIELDS)
           /\ ClientsOfPair(clients, m) # {})
          => /\ resp'.status = 200
             /\ DOMAIN clients' = DOMAIN clients
             /\ \A i \in DOMAIN clients :
                   IF i \in ClientsOfPair(clients, m)
                   THEN [clients'[i] EXCEPT !.phone = clients[i].phone]
                          = clients[i]
                   ELSE clients'[i] = clients[i]]_vars

\* C7: delete_client on a client that has at least one inquiry leaves the
\* client row in place and unchanged; the response is 400 with the
\* inquiry count unless the role gate answered 403; and the handler body,
\* run for a caller whose role passes the gate, answers 400 with the
\* inquiry count and keeps the row.
C7_DeleteKeepsClientWithInquiries ==
    /\ [](\A c \in DOMAIN clients, role \in {"admin", "manager"} :
             InquiriesOf(inquiries, c) # {}
             => LET r == delete_client_body([id |-> 1, role |-> role], c)
                IN /\ r.status = 400
                   /\ r.count = Cardinality(InquiriesOf(inquiries, c))
                   /\ r.clients = clients)
    /\ [][\A c \in 1..MaxClients :
             (/\ delete_client(c)
              /\ c \in DOMAIN clients
              /\ InquiriesOf(inquiries, c) # {})
             => /\ clients' = clients
                /\ resp'.status \in {400, 403}
                /\ resp'.status = 400
                     => resp'.inquiries_count
                          = Cardinality(InquiriesOf(inquiries, c))]_vars

\* C7 witness: delete_client was just called on a stored client that has
\* inquiries
C7_Witness ==
    /\ resp.op = "delete_client"
    /\ resp.client_id \in DOMAIN clients
    /\ InquiriesOf(inquiries, resp.client_id) # {}

\* C8: delete_client in the session of a user whose role is admin or
\* manager, on a stored client without inquiries, answers 200 and removes
\* the client; in the session of a user with another role it answers 403
\* and the client stays.
C8_DeleteByRole ==
    [][\A c \in 1..MaxClients :
          (/\ delete_client(c)
           /\ c \in DOMAIN clients
           /\ InquiriesOf(inquiries, c) = {})
          => IF UserRole[session.username] \in {"admin", "manager"}
             THEN /\ resp'.status = 200
                  /\ c \notin DOMAIN clients'
             ELSE /\ resp'.status = 403
                  /\ clients' = clients]_vars

\* C9 as stated: an access no later than SESSION_TIMEOUT after the latest
\* successful login returns the user of that login, whatever requests
\* were made in between.
C9_Original ==
    [][(/\ check_auth
        /\ lastLogin.time # NULLINT
        /\ now <= lastLogin.time + SESSION_TIMEOUT)
       => /\ resp'.status = 200
          /\ resp'.user.username = lastLogin.username]_vars

\* C9: the session is the one the latest successful login established, and
\* only a successful login sets or changes it, to a session whose login
\* time is the time of that login; while it is in place, an access no later
\* than login time + SESSION_TIMEOUT returns its user and keeps it, and an
\* access later than that returns absent and clears it; an access without
\* a session returns absent and leaves the caller without one.
C9_SessionLifetime ==
    /\ []("user_id" \in DOMAIN session
            => /\ session.username = lastLogin.username
               /\ fromisoformat(session.login_time) = lastLogin.time)
    /\ [][(session' # session /\ session' # EmptySession)
          => /\ resp'.op = "login"
             /\ resp'.status = 200
             /\ session'.username = resp'.user.username
             /\ fromisoformat(session'.login_time) = now]_vars
    /\ [][check_auth
          => IF "user_id" \in DOMAIN session
             THEN IF now <= fromisoformat(session.login_time) + SESSION_TIMEOUT
                  THEN /\ resp'.status = 200
                       /\ resp'.user.username = session.username
                       /\ session' = session
                  ELSE /\ resp'.status = 401
                       /\ resp'.user = NoUser
                       /\ session' = EmptySession
             ELSE /\ resp'.status = 401
                  /\ resp'.user = NoUser
                  /\ session' = EmptySession]_vars

\* C9 witness: an access exactly SESSION_TIMEOUT after the login returned
\* the user
C9_Witness ==
    /\ resp.op = "check_auth"
    /\ resp.status = 200
    /\ lastLogin.time # NULLINT
    /\ now = lastLogin.time + SESSION_TIMEOUT
    /\ resp.user.username = lastLogin.username

\* an active user with this email whose stored hash verifies the password
Credentials(email, password) ==
    {u \in users : /\ u.email = email
                   /\ u.is_active = 1
                   /\ check_password_hash(u.password_hash, password)}

\* C10 as stated: login succeeds exactly for the email and password of an
\* active user, and after a failed login the caller is not authenticated as
\* the user of that email.
C10_Original ==
    [][\A e \in LoginEmails \ {""}, p \in LoginPasswords \ {""}, k \in Tokens :
          login(e, p, k)
          => IF Credentials(e, p) # {}
             THEN /\ resp'.status = 200
                  /\ resp'.user.email = e
                  /\ resp'.user.token = k
                  /\ session'.username = resp'.user.username
             ELSE /\ resp'.user = NoUser
                  /\ LET g == get_current_user(session', now)
                     IN ~(g.user # NoUser /\ g.user.email = e)]_vars

\* C10: login with the email and password of an active user returns the
\* projection of that user with a token and establishes a session for it;
\* with an unknown email, the email of an inactive user or a wrong password
\* it returns absent and leaves the session as it was.
C10_LoginByEmail ==
    [][\A e \in LoginEmails \ {""}, p \in LoginPasswords \ {""}, k \in Tokens :
          login(e, p, k)
          => IF Credentials(e, p) # {}
             THEN /\ resp'.status = 200
                  /\ \E u \in Credentials(e, p) :
                        /\ resp'.user = [id |-> u.id, username |-> u.username,
                                         full_name |-> u.full_name,
                                         email |-> u.email, token |-> k]
                        /\ session'.user_id = u.id
                        /\ session'.username = u.username
                        /\ session'.token = k
                        /\ fromisoformat(session'.login_time) = now
             ELSE /\ resp'.status = 401
                  /\ resp'.user = NoUser
                  /\ session' = session]_vars

\* C10 witness: a login with a wrong password was refused while the session
\* of an earlier login of the same user is still in place
C10_Witness ==
    /\ resp.op = "login"
    /\ resp.status = 401
    /\ "user_id" \in DOMAIN session
    /\ \E u \in users : u.email = resp.email /\ u.username = session.username

\* the responses that have no message in their conversation thread
Threadless(rs, msgs) ==
    {r \in DOMAIN rs : \A k \in DOMAIN msgs : msgs[k].response_id # r}

\* C22: migrate-conversations in the session of a user whose role is admin
\* answers 200 and adds, for every response without a thread message,
\* exactly one 'agent' message equal to its response_text, keeps every
\* stored message, and leaves no response without a thread (so a second
\* call migrates 0); in the session of any other user it answers 403 and
\* changes nothing.
C22_MigrateConversations ==
    [][migrate_existing_conversations
         => IF UserRole[session.username] = "admin"
            THEN /\ resp'.status = 200
                 /\ resp'.migrated = Cardinality(Threadless(responses, messages))
                 /\ SubSeq(messages', 1, Len(messages)) = messages
                 /\ Len(messages') = Len(messages) + resp'.migrated
                 /\ \A r \in Threadless(responses, messages) :
                      \E k \in DOMAIN messages' \ DOMAIN messages :
                         messages'[k] = [response_id |-> r, sender |-> "agent",
                                         message |-> responses[r].response_text]
                 /\ Threadless(responses', messages') = {}
            ELSE /\ resp'.status = 403
                 /\ UNCHANGED tables]_vars

C27_InquiryHasClient ==
    \A i \in DOMAIN inquiries : inquiries[i].client_id \in DOMAIN clients

\* C28: every stored response refers to a stored inquiry whose status is
\* responded and has at least one message in its thread, and a
\* create_response whose inquiry id matches no inquiry stores no response
\* and no thread message.
C28_ResponseHasInquiry ==
    /\ [](\A r \in DOMAIN responses :
            /\ responses[r].inquiry_id \in DOMAIN inquiries
            /\ inquiries[responses[r].inquiry_id].status = "responded"
            /\ Thread(messages, r) # << >>)
    /\ [][(resp'.op = "create_response"
           /\ \E i \in 1..MaxInquiries, x \in ResponseTexts :
                 i \notin DOMAIN inquiries /\ create_response(i, x))
          => UNCHANGED <<responses, messages>>]_vars

\* C29: every stored response has client_replied 0 or 1, follow_up_method
\* absent, 'email' or 'other_channel', and deal_status 'open', 'closed_won'
\* or 'closed_lost', under every sequence of mark-replied, update-follow-up,
\* add-message and sync requests.
C29_FollowUpDomains ==
    \A r \in DOMAIN responses :
        /\ responses[r].client_replied \in {0, 1}
        /\ responses[r].follow_up_method \in {NULL, "email", "other_channel"}
        /\ responses[r].deal_status \in {"open", "closed_won", "closed_lost"}

\* the first cleaned match longer than 3 characters, NULL when there is none
FirstLongMatch(matches) ==
    LET long == {k \in DOMAIN matches : Len(Clean(matches[k])) > 3}
    IN IF long = {} THEN NULL
       ELSE Clean(matches[CHOOSE k \in long : \A j \in long : k <= j])

\* C30: the company of a message is the first cleaned match, in the order
\* of the patterns, that is longer than 3 characters; when there is none
\* the message has no company: the company does not count toward the
\* 3-of-4 gate (a message with a name and an address only is rejected) and
\* a client row the sync stores for the message has no company.
C30_CompanyExtraction ==
    [][\A ms \in MatchLists, p \in {NULL, "555123"} :
          sync_emails(<<CompanyMail(ms, p)>>)
          => /\ ExtractCompany(CompanyMail(ms, p).body) = FirstLongMatch(ms)
             /\ (FirstLongMatch(ms) = NULL /\ p = NULL)
                => resp'.rejected = 1 /\ UNCHANGED tables
             /\ \A c \in DOMAIN clients' \ DOMAIN clients :
                   clients'[c].company = FirstLongMatch(ms)]_vars

\* the inquiries equal to the one a sync stores for message m of client c
Identical(inqs, c, m, t) == ExistingInquiry(inqs, c, SubjectOf(m, t), m.body)

\* C21: the duplicate test and the inquiry INSERT of a sync request are not
\* one atomic step: a request that found no identical inquiry stores its
\* inquiry whatever another request committed after that test, so two
\* requests that both pass the test for the same client, subject and body
\* before either commits store two identical inquiries.
C21_CheckThenInsert ==
    [][\A r \in Requests :
          sync_insert(r, 0)
          => LET m == syncs[r].new_emails[syncs[r].k]
             IN /\ Len(inquiries') = Len(inquiries) + 1
                /\ Identical(inquiries', syncs[r].client, m, now)
                     = Identical(inquiries, syncs[r].client, m, now)
                         \cup {Len(inquiries')}
                /\ syncs'[r].count = syncs[r].count + 1]_vars

\* both requests have returned 200 with one inquiry created each, and the
\* two stored inquiries are identical
C21_Witness ==
    /\ \A r \in Requests : /\ syncs[r].pc = "idle"
                           /\ syncs[r].status = 200
                           /\ syncs[r].count = 1
    /\ Len(inquiries) = 2
    /\ inquiries[1] = inquiries[2]
    /\ inquiries[1].client_id \in DOMAIN clients
    /\ inquiries[1].message = MailH.body

\* C26: each accepted message of a sync is handled in a transaction of its
\* own.  When a statement of the block of the k-th message raises a storage
\* error, the call answers 500 and stops at k, and the database is what the
\* blocks of messages 1..k-1 committed: no table changes in the failing
\* step.  So no client stored by a sync is without an inquiry and no reply
\* marking is without its 'client' thread message.
C26_PerMessageTransaction ==
    /\ [](/\ \A c \in DOMAIN clients :
                clients[c].email.domain = "internal.local"
                => InquiriesOf(inquiries, c) # {}
          /\ \A r \in DOMAIN responses :
                responses[r].client_replied = 1
                => \E k \in DOMAIN messages :
                      /\ messages[k].response_id = r
                      /\ messages[k].sender = "client")
    /\ [][\A failed \in Failures \ {0} :
            (sync_write_client("r1", failed) \/ sync_insert("r1", failed))
            => /\ UNCHANGED tables
               /\ syncs'["r1"].pc = "idle"
               /\ syncs'["r1"].status = 500
               /\ syncs'["r1"].k = syncs["r1"].k
               /\ syncs'["r1"].count = syncs["r1"].count]_vars

\* a call that committed the block of its first message and answered 500
\* at the second, whose inquiry is not stored
C26_Witness ==
    /\ syncs["r1"].pc = "idle"
    /\ syncs["r1"].status = 500
    /\ syncs["r1"].k = 2
    /\ syncs["r1"].count = 1
    /\ Len(inquiries) = 1
    /\ Len(inbox) = 2
    /\ \A n \in DOMAIN inbox : inbox[n].seen
    /\ inbox[1].message # inbox[2].message

\* the unseen message numbers before the first one whose fetch raises
BeforeRaise(box, imap) ==
    LET nums == Unseen(box)
        raises == {j \in DOMAIN nums : imap.fetch[nums[j]] = "raise"}
    IN SubSeq(nums, 1, IF raises = {} THEN Len(nums)
                       ELSE (CHOOSE j \in raises : \A i \in raises : j <= i) - 1)

\* the message numbers a fetch in session imap collects, in inbox order
Collected(box, imap) ==
    IF imap.search = "OK"
    THEN SelectSeq(BeforeRaise(box, imap), LAMBDA n : imap.fetch[n] = "OK")
    ELSE << >>

\* C24: fetch_new_emails returns, and never raises, whatever fails in the
\* IMAP session: the records of the unseen messages fetched with status OK
\* before the first call that raises, in inbox order (none when connecting,
\* selecting or searching fails), a message whose fetch status is not OK
\* being skipped; the loop body of its caller runs on to its end.
C24_FetchNeverRaises ==
    [][\A w \in 1..MaxWorkers, imap \in ImapSessions :
          worker_fetch(w, imap)
          => LET nums == Collected(inbox, imap)
             IN /\ ~fetch_new_emails(inbox, imap, Monitor(w)).raised
                /\ workers'[w].pc = "check"
                /\ workers'[w].new_emails =
                     [j \in 1..Len(nums) |-> EmailData(inbox[nums[j]].message)]
                /\ \A n \in DOMAIN inbox :
                      inbox'[n].seen
                        = (inbox[n].seen \/ \E j \in DOMAIN nums : nums[j] = n)]_vars

\* a fetch that skipped the first unseen message (status NO) and returned
\* the second
C24_Witness ==
    /\ Len(inbox) = 2
    /\ ~inbox[1].seen
    /\ inbox[2].seen
    /\ \E w \in DOMAIN workers :
          /\ workers[w].pc = "check"
          /\ workers[w].new_emails = <<EmailData(inbox[2].message)>>
          /\ inbox[2].logged_by = {w}

\* C25: with the monitor running beside the sync requests, a message that
\* has been fetched (marked read) was fetched by a sync request and by no
\* monitor iteration, by one fetch caller only, and, once no sync request
\* is under way, a qualifying one is stored as an inquiry.
C25_InboxToInquiry ==
    \A n \in DOMAIN inbox :
        inbox[n].seen
        => /\ inbox[n].logged_by = {}
           /\ Cardinality(inbox[n].synced_by) = 1
           /\ (/\ \A r \in Requests : syncs[r].pc = "idle"
               /\ ~Rejected(EmailData(inbox[n].message)))
              => \E i \in DOMAIN inquiries :
                    inquiries[i].message = EmailData(inbox[n].message).body

====
